---- MODULE Spec2Model ----
(***************************************************************************)
(* The encrypted chunked transfer of secure-document-transfer: the         *)
(* server's chunk ingestion handler (SendFileChunkHandler), the metadata   *)
(* store it writes (file_metadata, file_chunks, file_recipients,           *)
(* auth.users, public.users), the blob store, recipient provisioning       *)
(* (CreateUserAndSendResetEmail), sign-up, and the browser's transfer      *)
(* orchestrator (chunkFile / handleSendFiles).                             *)
(*                                                                         *)
(* A request enters the model at the handler, with the context values the  *)
(* authentication layer attached to it.  Each action is one step of the    *)
(* handler between two calls that leave the process (metadata store, blob  *)
(* store, Supabase Auth); the code that runs locally around such a call    *)
(* is part of the same action.                                             *)
(***************************************************************************)
EXTENDS Integers, Sequences, FiniteSets, TLC

\* ------------------------------------------------------------------ bounds

\* Chunk-upload requests handed to the handlers in one run.
MaxRequests == 2

\* The pipeline instances (processes), each with its own mutex and map.
Instances == {"i1", "i2"}

NULL == "NULL"

\* ------------------------------------------------------- text and numbers

Digits == {"0", "1", "2", "3", "4", "5", "6", "7", "8", "9"}

DigitVal(c) ==
    CASE c = "0" -> 0 [] c = "1" -> 1 [] c = "2" -> 2 [] c = "3" -> 3
      [] c = "4" -> 4 [] c = "5" -> 5 [] c = "6" -> 6 [] c = "7" -> 7
      [] c = "8" -> 8 [] c = "9" -> 9

DigitChar(d) ==
    CASE d = 0 -> "0" [] d = 1 -> "1" [] d = 2 -> "2" [] d = 3 -> "3"
      [] d = 4 -> "4" [] d = 5 -> "5" [] d = 6 -> "6" [] d = 7 -> "7"
      [] d = 8 -> "8" [] d = 9 -> "9"

RECURSIVE DigitsValue(_)
DigitsValue(s) ==
    IF s = <<>> THEN 0
    ELSE DigitsValue(SubSeq(s, 1, Len(s) - 1)) * 10 + DigitVal(s[Len(s)])

\* strconv.Atoi / strconv.ParseInt(s, 10, 64) on a string given as its
\* characters: an optional sign, then at least one decimal digit.  (The
\* strings of the model are far shorter than the range of int.)
Atoi(s) ==
    LET signed == Len(s) > 0 /\ s[1] \in {"+", "-"}
        body   == IF signed THEN Tail(s) ELSE s
    IN  IF Len(body) = 0 \/ \E i \in 1..Len(body) : body[i] \notin Digits
        THEN [ok |-> FALSE, val |-> 0]
        ELSE [ok |-> TRUE,
              val |-> IF signed /\ s[1] = "-" THEN 0 - DigitsValue(body)
                      ELSE DigitsValue(body)]

\* Number.prototype.toString() of a non-negative integer, as characters.
RECURSIVE NumberToString(_)
NumberToString(n) ==
    IF n < 10 THEN <<DigitChar(n)>>
    ELSE Append(NumberToString(n \div 10), DigitChar(n % 10))

\* strings.TrimSpace on the e-mail texts of the model.
TrimSpace(s) ==
    CASE s = " "           -> ""
      [] s = " bob@x.com " -> "bob@x.com"
      [] OTHER             -> s

\* LOWER(...) of the user queries on the e-mail texts of the model.
Lower(s) ==
    CASE s = "Bob@x.com" -> "bob@x.com"
      [] OTHER           -> s

\* JSON.stringify of the orchestrator's encrypted_keys object.
JSONStringify(keys) == [kind |-> "object", members |-> keys]

\* json.Unmarshal([]byte(text), &encryptedKeys) into a map[string]string:
\* an object gives its members, null gives the nil map, any other text fails.
\* The empty text (a form field that was not sent) fails like any other
\* text that is no JSON value.
JSONUnmarshal(text) ==
    CASE text.kind = "object" -> [ok |-> TRUE, map |-> text.members]
      [] text.kind = "null"   -> [ok |-> TRUE, map |-> <<>>]
      [] OTHER                -> [ok |-> FALSE, map |-> <<>>]

\* The texts a form field encrypted_keys can hold in the model.
EmptyText   == [kind |-> "empty", members |-> <<>>]
NullText    == [kind |-> "null", members |-> <<>>]
InvalidText == [kind |-> "invalid", members |-> <<>>]

\* encryptedKeys[email]: the value (the empty text without the key) and
\* whether the key is present.
MapHas(m, k) == k \in DOMAIN m
MapGet(m, k) == IF k \in DOMAIN m THEN m[k] ELSE <<>>

\* fmt.Sprintf("%s/chunk_%d.enc", fileID, chunkIndex)
StoragePathOf(fileID, chunkIndex) == <<fileID, "/chunk_", chunkIndex, ".enc">>

\* ------------------------------------------------------------------ values

Alice == "alice@x.com"
Bob   == "bob@x.com"
Carol == "carol@x.com"

\* A user id (a UUID of auth.users): the e-mail it was created for and who
\* created it (0: it existed before the run, -1: a sign-up, r > 0:
\* chunk-upload request r).  NoId is the nil *string / SQL NULL.
UserId(email, creator) == <<email, creator>>
NoId == <<>>

CarolId == UserId(Carol, 0)
AliceId == UserId(Alice, 0)

\* An id that is the same for every file.
sameFileId(k) == <<"file", 0>>

\* generateFileId(): the id of the k-th file a sender chunks.  A text that
\* is made of parts is the sequence of its parts, the empty text is <<>>.
generateFileId(k) == <<"file", k>>
F1 == generateFileId(1)
F2 == generateFileId(2)

\* generateIV(): the random 96-bit IV drawn for the j-th encryption of file k.
generateIV(k, j) == <<"iv", k, j>>

\* arrayBufferToBase64(buffer)
arrayBufferToBase64(buffer) == <<"base64", buffer>>

\* encryptChunk(chunkBlob, aesKey, iv): the ciphertext of a chunk, which only
\* the IV it was made with decrypts (with the file key).  It is the part
\* encrypted_chunk of the form; NoChunk when the part is missing.
Ciphertext(iv) == [present |-> TRUE, iv |-> iv]
NoChunk == [present |-> FALSE, iv |-> <<>>]

\* exportKey('raw', aesKey): the file key itself, as a sender that does
\* not wrap it would put it into encrypted_keys.
Exported(email) == <<"raw", "aes key">>

\* encryptKeyForRecipient(aesKey, publicKey): the file key wrapped (RSA-OAEP)
\* under the public key of one recipient.
Wrapped(email) == <<"wrapped", email>>

\* The first chunk of a three-chunk file from carol to alice (who has an
\* account and a key) and bob (who has none): the form the orchestrator
\* posts, with the context values of the authenticated sender.
BaseRequest ==
    [user_id           |-> CarolId,
     user_token        |-> "token",
     file_id           |-> F1,
     chunk_index       |-> <<"0">>,
     total_chunks      |-> <<"3">>,
     original_filename |-> "a.pdf",
     file_size         |-> <<"5">>,
     chunk_size        |-> <<"2">>,
     iv                |-> arrayBufferToBase64(generateIV(1, 0)),
     encrypted_keys    |-> JSONStringify([e \in {Alice} |-> Wrapped(e)]),
     mime_type         |-> "application/pdf",
     recipient_emails  |-> <<Alice, Bob>>,
     encrypted_chunk   |-> Ciphertext(generateIV(1, 0))]

\* Chunk i of that file, encrypted under the j-th IV.
ChunkRequest(i, j) ==
    [BaseRequest EXCEPT !.chunk_index = <<DigitChar(i)>>,
                        !.iv = arrayBufferToBase64(generateIV(1, j)),
                        !.encrypted_chunk = Ciphertext(generateIV(1, j))]

\* Requests of a well-behaved sender.
ValidRequests ==
    { ChunkRequest(1, 1), ChunkRequest(2, 2),
      \* chunk 1 again, encrypted again under a fresh IV
      ChunkRequest(1, 9),
      \* another file, to recipients without any key: an empty key object,
      \* an e-mail with blanks around it and a blank one
      [BaseRequest EXCEPT !.file_id = F2, !.total_chunks = <<"1">>,
                          !.encrypted_keys = JSONStringify(<<>>),
                          !.recipient_emails = <<" bob@x.com ", " ">>] }

\* Requests the handler's checks let through although their numbers do not
\* fit the file.
OddRequests ==
    { \* a request of the same file that states another total_chunks
      [ChunkRequest(0, 0) EXCEPT !.total_chunks = <<"1">>],
      \* a chunk index outside [0, total_chunks)
      [ChunkRequest(0, 0) EXCEPT !.chunk_index = <<"5">>],
      \* a negative chunk index
      [ChunkRequest(0, 0) EXCEPT !.chunk_index = <<"-", "1">>],
      \* the JSON text null for the keys
      [BaseRequest EXCEPT !.encrypted_keys = NullText],
      \* a chunk of carol's file, sent by alice with her own token
      [ChunkRequest(2, 2) EXCEPT !.user_id = AliceId] }

\* Requests with a missing or malformed part.
InvalidRequests ==
    { [BaseRequest EXCEPT !.user_id = NoId],
      [BaseRequest EXCEPT !.user_token = ""],
      [BaseRequest EXCEPT !.file_id = <<>>],
      [BaseRequest EXCEPT !.chunk_index = <<>>],
      [BaseRequest EXCEPT !.total_chunks = <<>>],
      [BaseRequest EXCEPT !.original_filename = ""],
      [BaseRequest EXCEPT !.iv = <<>>],
      [BaseRequest EXCEPT !.encrypted_keys = EmptyText],
      [BaseRequest EXCEPT !.encrypted_keys = InvalidText],
      [BaseRequest EXCEPT !.chunk_index = <<"x">>],
      [BaseRequest EXCEPT !.total_chunks = <<"3", "x">>],
      [BaseRequest EXCEPT !.file_size = <<>>],
      [BaseRequest EXCEPT !.chunk_size = <<"-">>],
      [BaseRequest EXCEPT !.recipient_emails = <<>>],
      [BaseRequest EXCEPT !.encrypted_chunk = NoChunk] }

RequestPool == ValidRequests \cup OddRequests \cup InvalidRequests

NoRequest == [BaseRequest EXCEPT !.file_id = <<>>, !.user_id = NoId]

\* ------------------------------------------------------------------- state

VARIABLES
    request,           \* request r as the handler received it
    instance,          \* the pipeline instance that serves request r
    pc,                \* where the handler of request r stands
    local,             \* its loop position, recipientRecords, recipientID
    response,          \* the response it wrote
    fileMetadataLock,  \* per instance: the request holding the mutex, or 0
    fileMetadataMap,   \* per instance: the file ids whose entry is true
    file_metadata,     \* rows of public.file_metadata
    file_chunks,       \* rows of public.file_chunks
    file_recipients,   \* rows of public.file_recipients
    auth_users,        \* rows of auth.users
    public_users,      \* rows of public.users
    storage,           \* objects of the bucket encrypted-files
    reset_emails,      \* password reset e-mails sent
    client,            \* the sender's Dashboard: form, keys, chunks, progress
    serverHeld,        \* passwords and private keys the server had in the clear
    reader,            \* crypto/rand.Reader: the number of draws made so far
    generatedKeys,     \* the calls of GenerateUserKeys and what they returned
    decrypted,         \* the last call of DecryptPrivateKey and its result
    httpRequest        \* the request the router is serving: route, header, stage

vars == <<request, instance, pc, local, response, fileMetadataLock,
          fileMetadataMap, file_metadata, file_chunks, file_recipients,
          auth_users, public_users, storage, reset_emails, client,
          serverHeld, reader, generatedKeys, decrypted, httpRequest>>

cryptoVars == <<reader, generatedKeys, decrypted>>

routerVars == <<httpRequest>>

stores == <<file_metadata, file_chunks, file_recipients, auth_users,
            public_users, storage, reset_emails>>

Requests == 1..MaxRequests

NoLocal == [i |-> 0, recipientRecords |-> <<>>, recipientID |-> NoId]
NoResponse ==
    [status |-> 0, error |-> "", details |-> "", storage_path |-> <<>>]

\* RespondWithError(w, status, message, details)
ErrorDetails(status, message, details) ==
    [status |-> status, error |-> message, details |-> details,
     storage_path |-> <<>>]

ErrorResponse(status, message) == ErrorDetails(status, message, "")

\* The key record GenerateUserKeys and database.CreateUser store for a user.
KeyRecord(id) == [id |-> id, public_key |-> <<"public key of", id>>]

\* What the server has in the clear when it makes the keys of a user:
\* crypto.GenerateUserKeys(password) generates the RSA pair and encrypts the
\* private key under a key derived from the password it is given.
KeysMadeFor(e, password) ==
    { [secret |-> "password", of |-> Lower(e), from |-> password],
      [secret |-> "private key", of |-> Lower(e), from |-> password] }

\* The Dashboard with nothing attached and nobody selected.
NoClient ==
    [pc |-> "form", files |-> <<>>, selectedUsers |-> <<>>,
     recipientPublicKeys |-> <<>>, chunkedFiles |-> <<>>,
     fileIndex |-> 0, chunkIndex |-> 0]

\* ---------------------------------------------- the router, AuthMiddleware

\* The routes of main(): the protected ones are wrapped in AuthMiddleware.
ProtectedRoutes ==
    {"/profile", "/signout", "/users/search", "/users/public-key",
     "/files/send-chunk"}
PublicRoutes == {"/health", "/password-reset/request"}

\* An Authorization header is its words and the blanks between them; the
\* header that was not sent is the empty text.
Bearer(token) == <<"Bearer", " ", token>>
Headers ==
    { <<>>, Bearer("token of carol"), Bearer("token of alice"),
      Bearer("expired"), <<"Bearer">>, <<"Bearer", " ">>,
      <<"Basic", " ", "token of carol">>, <<"bearer", " ", "token of carol">>,
      <<"Bearer", " ", " ", "token of carol">>,
      <<"Bearer", " ", "token of carol", " ", "x">> }

\* strings.Split(s, " "): the texts between the blanks.
RECURSIVE Split(_)
Split(s) ==
    IF \A i \in 1..Len(s) : s[i] # " " THEN <<s>>
    ELSE LET i == CHOOSE j \in 1..Len(s) :
                     s[j] = " " /\ \A k \in 1..(j - 1) : s[k] # " "
         IN  <<SubSeq(s, 1, i - 1)>> \o Split(SubSeq(s, i + 1, Len(s)))

\* config.SupabaseClient.Auth.WithToken(tokenString).GetUser(): the user of
\* a token the auth service issued and still accepts, an error otherwise.
AuthGetUser(tokenString) ==
    CASE tokenString = <<"token of carol">>
           -> [err |-> FALSE, ID |-> CarolId, Email |-> Carol]
      [] tokenString = <<"token of alice">>
           -> [err |-> FALSE, ID |-> AliceId, Email |-> Alice]
      [] OTHER -> [err |-> TRUE, ID |-> NoId, Email |-> ""]

\* The context of a request nobody authenticated.
NoContext == [user_id |-> NoId, user_email |-> ""]

NoAnswer == [status |-> 0, message |-> ""]
Answer(status, message) == [status |-> status, message |-> message]

\* OptionalAuthMiddleware(next): the handler is called in any case, with
\* the user in the context when the token is valid.
OptionalAuthMiddleware(authHeader) ==
    LET parts == Split(authHeader)
        user  == AuthGetUser(parts[2])
    IN  IF authHeader # <<>> /\ Len(parts) = 2 /\ parts[1] = <<"Bearer">>
           /\ ~user.err
        THEN [next |-> TRUE,
              ctx |-> [user_id |-> user.ID, user_email |-> user.Email],
              response |-> NoAnswer]
        ELSE [next |-> TRUE, ctx |-> NoContext, response |-> NoAnswer]

\* AuthMiddleware(next): whether next is called, with which context, and
\* the response written otherwise.
AuthMiddleware(authHeader) ==
    LET parts == Split(authHeader)
        user  == AuthGetUser(parts[2])
    IN  CASE authHeader = <<>>
               -> [next |-> FALSE, ctx |-> NoContext,
                   response |-> Answer(401, "Missing authorization header")]
          [] Len(parts) # 2 \/ parts[1] # <<"Bearer">>
               -> [next |-> FALSE, ctx |-> NoContext,
                   response |->
                      Answer(401, "Invalid authorization header format")]
          [] user.err
               -> [next |-> FALSE, ctx |-> NoContext,
                   response |-> Answer(401, "Invalid or expired token")]
          [] OTHER
               -> [next |-> TRUE,
                   ctx |-> [user_id |-> user.ID, user_email |-> user.Email],
                   response |-> NoAnswer]

\* isValidEmail(email) of the addresses of the model
Dave == "dave@x.com"
isValidEmail(e) == e \in {Alice, Bob, Carol, Dave}

\* The bodies of password reset requests: addresses with an account and
\* without, no address, and a text that is no address.
ResetEmails == {Alice, Carol, Bob, Dave, "", "not an address"}

\* req.Validate() of a PasswordResetRequest
ValidateReset(e) ==
    CASE e = ""           -> Answer(400, "Email is required")
      [] ~isValidEmail(e) -> Answer(400, "Invalid email format")
      [] OTHER            -> NoAnswer

\* A handler that tells the sender when no e-mail went out.
ResetAnswerRevealing(sent) ==
    IF sent
    THEN Answer(200, "A password reset link has been sent.")
    ELSE Answer(404, "No account with that email")

\* The response of RequestPasswordResetHandler after sendPasswordResetEmail.
ResetAnswer(sent) ==
    Answer(200, "If an account with that email exists, a password reset link has been sent.")

\* No request at the router.
NoHTTP ==
    [route |-> "", authorization |-> <<>>, email |-> "", stage |-> "none",
     ctx |-> NoContext, invoked |-> FALSE, response |-> NoAnswer]

\* ------------------------------------------------------- package crypto

\* Calls of GenerateUserKeys in one run.
MaxCalls == 2

Passwords == {"testPassword123", "wrongPassword", ""}

\* base64.StdEncoding.EncodeToString(b)
EncodeToString(b) == <<"base64", b>>

\* A text that is no base64.
NotBase64 == <<"not base64">>

\* base64.StdEncoding.DecodeString(s)
DecodeString(s) ==
    IF Len(s) = 2 /\ s[1] = "base64"
    THEN [err |-> FALSE, bytes |-> s[2]]
    ELSE [err |-> TRUE, bytes |-> <<>>]

\* A source of randomness that returns the same bytes at every draw.
zeroRead(n) == <<"random", 0>>

\* rand.Read(b): the bytes of the n-th draw from rand.Reader.
randRead(n) == <<"random", n>>

\* rsa.GenerateKey(rand.Reader, RSAKeySize) at the n-th draw, and the public
\* key of a private key.
rsaGenerateKey(n) == <<"rsa", n>>
PublicKey(privateKey) == <<"public", privateKey>>

\* pem.EncodeToMemory(&pem.Block{Type, Bytes})
pemEncodeToMemory(type, bytes) == <<"pem", type, bytes>>

\* pbkdf2.Key([]byte(password), salt, PBKDF2Iterations, AESKeySize, sha256.New)
pbkdf2Key(password, salt) == <<"pbkdf2", password, salt>>

\* gcm.Seal(nil, nonce, plaintext, nil) under the key of the cipher
gcmSeal(key, nonce, plaintext) ==
    [key |-> key, nonce |-> nonce, plaintext |-> plaintext]

\* A decryption without authentication: under another key or nonce it
\* returns other bytes, not an error.
ctrOpen(key, nonce, ciphertext) ==
    [err |-> FALSE,
     plaintext |-> IF ciphertext.key = key /\ ciphertext.nonce = nonce
                   THEN ciphertext.plaintext
                   ELSE <<"pem", "garbage", <<>>>>]

\* gcm.Open(nil, nonce, ciphertext, nil): the plaintext under the key and
\* nonce the ciphertext was sealed with, an authentication error otherwise.
gcmOpen(key, nonce, ciphertext) ==
    IF ciphertext.key = key /\ ciphertext.nonce = nonce
    THEN [err |-> FALSE, plaintext |-> ciphertext.plaintext]
    ELSE [err |-> TRUE, plaintext |-> <<>>]

\* encryptAES(plaintext, key), its nonce being the n-th draw
encryptAES(plaintext, key, n) ==
    LET nonce == randRead(n)
    IN  [ciphertext |-> gcmSeal(key, nonce, plaintext), nonce |-> nonce]

\* decryptAES(ciphertext, key, nonce)
decryptAES(ciphertext, key, nonce) == gcmOpen(key, nonce, ciphertext)

\* privateKeyPEM of the key pair generated at the n-th draw
privateKeyPEM(n) ==
    pemEncodeToMemory("RSA PRIVATE KEY", <<"pkcs1", rsaGenerateKey(n)>>)

\* GenerateUserKeys(password), n draws having been made before: the key
\* pair, the salt and the nonce are the next three draws.
GenerateUserKeys(password, n) ==
    LET publicKeyPEM  == pemEncodeToMemory(
                             "PUBLIC KEY",
                             <<"pkix", PublicKey(rsaGenerateKey(n))>>)
        salt          == randRead(n + 1)
        encryptionKey == pbkdf2Key(password, salt)
        sealed        == encryptAES(privateKeyPEM(n), encryptionKey, n + 2)
    IN  [PublicKeyPEM        |-> EncodeToString(publicKeyPEM),
         EncryptedPrivateKey |-> EncodeToString(sealed.ciphertext),
         Salt                |-> EncodeToString(salt),
         IV                  |-> EncodeToString(sealed.nonce)]

\* return "", err
DecryptError == [err |-> TRUE, value |-> <<>>]

\* A DecryptPrivateKey that derives the key from the salt as it is stored.
DecryptStoredSalt(encryptedPrivateKeyBase64, saltBase64, ivBase64, password) ==
    LET encryptedPrivateKey == DecodeString(encryptedPrivateKeyBase64)
        iv                  == DecodeString(ivBase64)
    IN  IF encryptedPrivateKey.err \/ iv.err THEN DecryptError
        ELSE LET opened == decryptAES(encryptedPrivateKey.bytes,
                                      pbkdf2Key(password, saltBase64),
                                      iv.bytes)
             IN  IF opened.err THEN DecryptError
                 ELSE [err |-> FALSE, value |-> opened.plaintext]

\* DecryptPrivateKey(encryptedPrivateKeyBase64, saltBase64, ivBase64, password)
DecryptPrivateKey(encryptedPrivateKeyBase64, saltBase64, ivBase64, password) ==
    LET encryptedPrivateKey == DecodeString(encryptedPrivateKeyBase64)
        salt                == DecodeString(saltBase64)
        iv                  == DecodeString(ivBase64)
    IN  IF encryptedPrivateKey.err \/ salt.err \/ iv.err THEN DecryptError
        ELSE LET opened == decryptAES(encryptedPrivateKey.bytes,
                                      pbkdf2Key(password, salt.bytes),
                                      iv.bytes)
             IN  IF opened.err THEN DecryptError
                 ELSE [err |-> FALSE, value |-> opened.plaintext]

\* No call of DecryptPrivateKey yet.
NoCall ==
    [called |-> FALSE, encryptedPrivateKey |-> <<>>, salt |-> <<>>,
     iv |-> <<>>, password |-> "", result |-> DecryptError]

InitServer ==
    /\ request = [r \in Requests |-> NoRequest]
    /\ instance = [r \in Requests |-> "i1"]
    /\ pc = [r \in Requests |-> "idle"]
    /\ local = [r \in Requests |-> NoLocal]
    /\ response = [r \in Requests |-> NoResponse]
    /\ fileMetadataLock = [n \in Instances |-> 0]
    /\ fileMetadataMap = [n \in Instances |-> {}]
    /\ file_metadata = {}
    /\ file_chunks = {}
    /\ file_recipients = {}
    /\ auth_users = { [id |-> CarolId, email |-> Carol],
                      [id |-> AliceId, email |-> Alice] }
    /\ public_users = { KeyRecord(CarolId), KeyRecord(AliceId) }
    /\ storage = {}
    /\ reset_emails = {}
    /\ serverHeld = {}
    /\ reader = 0
    /\ generatedKeys = <<>>
    /\ decrypted = NoCall
    /\ httpRequest = NoHTTP

Init == InitServer /\ client = NoClient

\* ------------------------------------------------- the request, validated

\* The handler up to the mutex: the context values, the required fields, the
\* numbers, the key object, the recipients, the chunk part.  The status of
\* the first check that fails, or 0.
Validate(q) ==
    CASE q.user_id = NoId
           -> ErrorResponse(401, "User not authenticated")
      [] q.user_token = ""
           -> ErrorResponse(401, "User token not found")
      [] \/ q.file_id = <<>> \/ q.chunk_index = <<>> \/ q.total_chunks = <<>>
         \/ q.original_filename = "" \/ q.iv = <<>>
         \/ q.encrypted_keys = EmptyText
           -> ErrorResponse(400, "Missing required fields")
      [] ~Atoi(q.chunk_index).ok
           -> ErrorResponse(400, "Invalid chunk_index")
      [] ~Atoi(q.total_chunks).ok
           -> ErrorResponse(400, "Invalid total_chunks")
      [] ~Atoi(q.file_size).ok
           -> ErrorResponse(400, "Invalid file_size")
      [] ~Atoi(q.chunk_size).ok
           -> ErrorResponse(400, "Invalid chunk_size")
      [] ~JSONUnmarshal(q.encrypted_keys).ok
           -> ErrorResponse(400, "Invalid encrypted_keys format")
      [] Len(q.recipient_emails) = 0
           -> ErrorResponse(400, "At least one recipient email is required")
      [] ~q.encrypted_chunk.present
           -> ErrorResponse(400, "Failed to get encrypted chunk")
      [] OTHER -> NoResponse

chunkIndex(r)    == Atoi(request[r].chunk_index).val
totalChunks(r)   == Atoi(request[r].total_chunks).val
fileSize(r)      == Atoi(request[r].file_size).val
chunkSize(r)     == Atoi(request[r].chunk_size).val
encryptedKeys(r) == JSONUnmarshal(request[r].encrypted_keys).map
fileID(r)        == request[r].file_id

\* for _, email := range recipientEmails, with the blank ones skipped: the
\* next position after i that holds an e-mail, or 0 at the end of the list.
NextRecipient(q, i) ==
    LET later == { j \in (i + 1)..Len(q.recipient_emails) :
                     TrimSpace(q.recipient_emails[j]) # "" }
    IN  IF later = {} THEN 0
        ELSE CHOOSE j \in later : \A k \in later : j <= k

email(r) == TrimSpace(request[r].recipient_emails[local[r].i])

\* ------------------------------------------------------ the metadata store

\* sql.NullString of the mime type: NULL when it is empty.
mimeTypeVal(mimeType) == IF mimeType = "" THEN NULL ELSE mimeType

FileMetadataRow(id, q) ==
    [id |-> id, file_id |-> q.file_id, sender_id |-> q.user_id,
     original_filename |-> q.original_filename,
     file_size |-> Atoi(q.file_size).val,
     total_chunks |-> Atoi(q.total_chunks).val,
     mime_type |-> mimeTypeVal(q.mime_type),
     completed_at |-> 0]

\* The insert without its conflict clause, on a table without UNIQUE(file_id).
CreateFileMetadata(rows, id, q) == rows \cup {FileMetadataRow(id, q)}

\* INSERT INTO file_metadata ... ON CONFLICT (file_id) DO NOTHING.  The row's
\* id (gen_random_uuid) is named after the request that inserts it.
CreateFileMetadataIfNotExists(rows, id, q) ==
    IF \E row \in rows : row.file_id = q.file_id THEN rows
    ELSE rows \cup {FileMetadataRow(id, q)}

\* UPDATE file_metadata SET completed_at = NOW() WHERE file_id = $1; NOW()
\* is named after the request that runs the update, 0 is NULL.
MarkFileComplete(rows, file, now) ==
    { IF row.file_id = file THEN [row EXCEPT !.completed_at = now] ELSE row :
      row \in rows }

FileRecipientRow(id, file, rec) ==
    [id |-> id, file_id |-> file, recipient_id |-> rec.RecipientID,
     recipient_email |-> rec.Email, encrypted_file_key |-> rec.EncryptedKey]

\* The inserts without their conflict clause, on a table without the
\* constraint UNIQUE(file_id, recipient_email).
CreateFileRecipients(rows, id, file, recipients) ==
    rows \cup { FileRecipientRow(<<id, n>>, file, recipients[n]) :
                  n \in 1..Len(recipients) }

\* One transaction: for each record in order, INSERT INTO file_recipients
\* ... ON CONFLICT (file_id, recipient_email) DO NOTHING.
RECURSIVE CreateFileRecipientsIfNotExists(_, _, _, _)
CreateFileRecipientsIfNotExists(rows, id, file, recipients) ==
    IF recipients = <<>> THEN rows
    ELSE LET n    == Len(recipients)
             done == CreateFileRecipientsIfNotExists(
                         rows, id, file, SubSeq(recipients, 1, n - 1))
             rec  == recipients[n]
         IN  IF \E row \in done : /\ row.file_id = file
                                   /\ row.recipient_email = rec.Email
             THEN done
             ELSE done \cup {FileRecipientRow(<<id, n>>, file, rec)}

\* A table file_chunks with the foreign key only.
ForeignKeyOnly(chunks, files, file, index) ==
    ~\E row \in files : row.file_id = file

\* What makes INSERT INTO file_chunks fail: UNIQUE(file_id, chunk_index) and
\* the foreign key file_id REFERENCES file_metadata(file_id).
FileChunkRejected(chunks, files, file, index) ==
    \/ \E row \in chunks : row.file_id = file /\ row.chunk_index = index
    \/ ~\E row \in files : row.file_id = file

FileChunkRow(id, file, index, size, path, iv) ==
    [id |-> id, file_id |-> file, chunk_index |-> index, chunk_size |-> size,
     storage_path |-> path, encryption_iv |-> iv]

\* SELECT EXISTS(SELECT 1 FROM auth.users WHERE LOWER(email) = LOWER($1))
UserExistsByEmail(users, e) ==
    \E u \in users : Lower(u.email) = Lower(e)

\* The rows GetUserByEmail can scan.
UsersByEmail(users, e) == { u \in users : Lower(u.email) = Lower(e) }

\* An Auth service that creates an account whatever accounts there are.
NeverRejected(users, e) == FALSE

\* Supabase Auth answers the Admin API's create (and a sign-up) for an
\* e-mail that has an account with an error status, which
\* createUserWithAdminAPI returns as an error.
AdminCreateRejected(users, e) ==
    \E u \in users : Lower(u.email) = Lower(e)

\* --------------------------------------------------------- the blob store

\* An upload that reports success without writing the object.
UploadDropped(objects, path, data) == objects

\* UploadFile(BucketName, storagePath, buf): the object at the path is the
\* data written last.
UploadFile(objects, path, data) ==
    { o \in objects : o.path # path } \cup {[path |-> path, data |-> data]}

ObjectExists(objects, path) == \E o \in objects : o.path = path

\* ------------------------------------------------- SendFileChunkHandler

Respond(r, resp) ==
    /\ response' = [response EXCEPT ![r] = resp]
    /\ pc' = [pc EXCEPT ![r] = "done"]
    /\ local' = [local EXCEPT ![r] = NoLocal]

Unlock(r) ==
    fileMetadataLock' = [fileMetadataLock EXCEPT ![instance[r]] = 0]

\* The loop over the recipients goes on with the next e-mail, or ends.
Continue(r, records) ==
    LET j == NextRecipient(request[r], local[r].i)
    IN  /\ local' = [local EXCEPT ![r] =
                        [i |-> j, recipientRecords |-> records,
                         recipientID |-> NoId]]
        /\ pc' = [pc EXCEPT ![r] = IF j = 0 THEN "recipients" ELSE "exists"]

\* recipientRecords = append(recipientRecords, {email, key, recipientID})
AppendRecord(r, recipientID) ==
    Append(local[r].recipientRecords,
           [Email |-> email(r),
            EncryptedKey |-> MapGet(encryptedKeys(r), email(r)),
            RecipientID |-> recipientID])

\* A handler that stores the FileRecord before it checks the form.
ReceiveEager(r, q, n) ==
    /\ pc[r] = "idle"
    /\ \A k \in 1..(r - 1) : pc[k] # "idle"
    /\ r = 1 => n = "i1"
    /\ request' = [request EXCEPT ![r] = q]
    /\ instance' = [instance EXCEPT ![r] = n]
    /\ file_metadata' = CreateFileMetadataIfNotExists(file_metadata, r, q)
    /\ IF Validate(q).status # 0
       THEN /\ response' = [response EXCEPT ![r] = Validate(q)]
            /\ pc' = [pc EXCEPT ![r] = "done"]
       ELSE /\ pc' = [pc EXCEPT ![r] = "lock"]
            /\ UNCHANGED response
    /\ UNCHANGED <<serverHeld, cryptoVars, routerVars>>
    /\ UNCHANGED <<local, fileMetadataLock, fileMetadataMap, file_chunks,
                   file_recipients, auth_users, public_users, storage,
                   reset_emails>>

\* A handler that inserts the ChunkRecord as soon as the form is checked,
\* before the metadata step, into a table without the foreign key.
ReceiveChunkFirst(r, q, n) ==
    /\ pc[r] = "idle"
    /\ \A k \in 1..(r - 1) : pc[k] # "idle"
    /\ r = 1 => n = "i1"
    /\ request' = [request EXCEPT ![r] = q]
    /\ instance' = [instance EXCEPT ![r] = n]
    /\ IF Validate(q).status # 0
       THEN /\ response' = [response EXCEPT ![r] = Validate(q)]
            /\ pc' = [pc EXCEPT ![r] = "done"]
            /\ UNCHANGED file_chunks
       ELSE /\ pc' = [pc EXCEPT ![r] = "lock"]
            /\ file_chunks' = file_chunks \cup
                  {FileChunkRow(r, q.file_id, Atoi(q.chunk_index).val,
                                Atoi(q.chunk_size).val,
                                StoragePathOf(q.file_id, Atoi(q.chunk_index).val),
                                q.iv)}
            /\ UNCHANGED response
    /\ UNCHANGED <<serverHeld, cryptoVars, routerVars>>
    /\ UNCHANGED <<local, fileMetadataLock, fileMetadataMap, file_metadata,
                   file_recipients, auth_users, public_users, storage,
                   reset_emails>>

\* A request arrives at an instance; a request that fails a check is
\* answered at once, any other goes on to fileMetadataLock.Lock().  (The
\* instances are alike: the first request is the one at i1.)
Receive(r, q, n) ==
    /\ pc[r] = "idle"
    /\ \A k \in 1..(r - 1) : pc[k] # "idle"
    /\ r = 1 => n = "i1"
    /\ request' = [request EXCEPT ![r] = q]
    /\ instance' = [instance EXCEPT ![r] = n]
    /\ IF Validate(q).status # 0
       THEN /\ response' = [response EXCEPT ![r] = Validate(q)]
            /\ pc' = [pc EXCEPT ![r] = "done"]
       ELSE /\ pc' = [pc EXCEPT ![r] = "lock"]
            /\ UNCHANGED response
    /\ UNCHANGED <<serverHeld, cryptoVars, routerVars>>
    /\ UNCHANGED <<local, fileMetadataLock, fileMetadataMap, stores>>

\* fileMetadataLock.Lock(); if !fileMetadataMap[fileID] the request keeps the
\* mutex for the metadata, otherwise it unlocks and goes to the upload.
Lock(r) ==
    /\ pc[r] = "lock"
    /\ fileMetadataLock[instance[r]] = 0
    /\ IF fileID(r) \in fileMetadataMap[instance[r]]
       THEN /\ pc' = [pc EXCEPT ![r] = "upload"]
            /\ UNCHANGED fileMetadataLock
       ELSE /\ pc' = [pc EXCEPT ![r] = "metadata"]
            /\ fileMetadataLock' = [fileMetadataLock EXCEPT ![instance[r]] = r]
    /\ UNCHANGED <<serverHeld, cryptoVars, routerVars>>
    /\ UNCHANGED <<client, request, instance, local, response, fileMetadataMap,
                   stores>>

\* A handler that sets fileMetadataMap[fileID] as soon as the FileRecord is
\* stored, before the recipients.
CreateMetadataFlagged(r) ==
    /\ pc[r] = "metadata"
    /\ file_metadata' = CreateFileMetadataIfNotExists(file_metadata, r, request[r])
    /\ fileMetadataMap' = [fileMetadataMap EXCEPT ![instance[r]] = @ \cup {fileID(r)}]
    /\ Continue(r, <<>>)
    /\ UNCHANGED <<serverHeld, cryptoVars, routerVars>>
    /\ UNCHANGED <<client, request, instance, response, fileMetadataLock,
                   file_chunks, file_recipients, auth_users,
                   public_users, storage, reset_emails>>

\* database.CreateFileMetadataIfNotExists, then the loop's first e-mail.
CreateMetadata(r) ==
    /\ pc[r] = "metadata"
    /\ file_metadata' = CreateFileMetadataIfNotExists(file_metadata, r, request[r])
    /\ Continue(r, <<>>)
    /\ UNCHANGED <<serverHeld, cryptoVars, routerVars>>
    /\ UNCHANGED <<client, request, instance, response, fileMetadataLock,
                   fileMetadataMap, file_chunks, file_recipients, auth_users,
                   public_users, storage, reset_emails>>

\* database.UserExistsByEmail(email)
CheckUser(r) ==
    /\ pc[r] = "exists"
    /\ pc' = [pc EXCEPT ![r] =
                 IF UserExistsByEmail(auth_users, email(r)) THEN "get"
                 ELSE "create"]
    /\ UNCHANGED <<serverHeld, cryptoVars, routerVars>>
    /\ UNCHANGED <<client, request, instance, local, response, fileMetadataLock,
                   fileMetadataMap, stores>>

\* database.GetUserByEmail(email): the id of the user, then the record.
GetUser(r) ==
    /\ pc[r] = "get"
    /\ \E u \in UsersByEmail(auth_users, email(r)) :
          Continue(r, AppendRecord(r, u.id))
    /\ UNCHANGED <<serverHeld, cryptoVars, routerVars>>
    /\ UNCHANGED <<client, request, instance, response, fileMetadataLock,
                   fileMetadataMap, stores>>

\* createUserWithAdminAPI(email, randomPassword) creates the account.
CreateUser(r) ==
    /\ pc[r] = "create"
    /\ ~AdminCreateRejected(auth_users, email(r))
    /\ auth_users' = auth_users \cup
                        {[id |-> UserId(email(r), r), email |-> Lower(email(r))]}
    /\ local' = [local EXCEPT ![r].recipientID = UserId(email(r), r)]
    /\ pc' = [pc EXCEPT ![r] = "keys"]
    /\ serverHeld' = serverHeld \cup
                        KeysMadeFor(email(r), "generateSecurePassword")
    /\ UNCHANGED <<cryptoVars, routerVars>>
    /\ UNCHANGED <<client, request, instance, response, fileMetadataLock,
                   fileMetadataMap, file_metadata, file_chunks,
                   file_recipients, public_users, storage, reset_emails>>

\* createUserWithAdminAPI fails: CreateUserAndSendResetEmail returns the
\* error and the handler unlocks and answers 500.
CreateUserFails(r) ==
    /\ pc[r] = "create"
    /\ AdminCreateRejected(auth_users, email(r))
    /\ Unlock(r)
    /\ Respond(r, ErrorResponse(500, "Failed to create user"))
    /\ serverHeld' = serverHeld \cup
                        KeysMadeFor(email(r), "generateSecurePassword")
    /\ UNCHANGED <<cryptoVars, routerVars>>
    /\ UNCHANGED <<client, request, instance, fileMetadataMap, stores>>

\* database.CreateUser(userID, keys...) of the new user
SaveKeys(r) ==
    /\ pc[r] = "keys"
    /\ public_users' = public_users \cup {KeyRecord(local[r].recipientID)}
    /\ pc' = [pc EXCEPT ![r] = "reset"]
    /\ UNCHANGED <<serverHeld, cryptoVars, routerVars>>
    /\ UNCHANGED <<client, request, instance, local, response, fileMetadataLock,
                   fileMetadataMap, file_metadata, file_chunks,
                   file_recipients, auth_users, storage, reset_emails>>

\* sendPasswordResetEmail(email); the new user's record joins the list.
SendResetEmail(r) ==
    /\ pc[r] = "reset"
    /\ reset_emails' = reset_emails \cup {email(r)}
    /\ Continue(r, AppendRecord(r, local[r].recipientID))
    /\ UNCHANGED <<serverHeld, cryptoVars, routerVars>>
    /\ UNCHANGED <<client, request, instance, response, fileMetadataLock,
                   fileMetadataMap, file_metadata, file_chunks,
                   file_recipients, auth_users, public_users, storage>>

\* database.CreateFileRecipientsIfNotExists when there are records, then
\* fileMetadataMap[fileID] = true and fileMetadataLock.Unlock().
CreateRecipients(r) ==
    /\ pc[r] = "recipients"
    /\ file_recipients' =
          IF Len(local[r].recipientRecords) > 0
          THEN CreateFileRecipientsIfNotExists(
                   file_recipients, r, fileID(r), local[r].recipientRecords)
          ELSE file_recipients
    /\ fileMetadataMap' = [fileMetadataMap EXCEPT ![instance[r]] = @ \cup {fileID(r)}]
    /\ Unlock(r)
    /\ pc' = [pc EXCEPT ![r] = "upload"]
    /\ local' = [local EXCEPT ![r] = NoLocal]
    /\ UNCHANGED <<serverHeld, cryptoVars, routerVars>>
    /\ UNCHANGED <<client, request, instance, response, file_metadata, file_chunks,
                   auth_users, public_users, storage, reset_emails>>

\* storage.UploadEncryptedChunk(fileID, chunkIndex, file, token)
UploadChunk(r) ==
    /\ pc[r] = "upload"
    /\ storage' = UploadFile(storage, StoragePathOf(fileID(r), chunkIndex(r)),
                             request[r].encrypted_chunk)
    /\ pc' = [pc EXCEPT ![r] = "chunk"]
    /\ UNCHANGED <<serverHeld, cryptoVars, routerVars>>
    /\ UNCHANGED <<client, request, instance, local, response, fileMetadataLock,
                   fileMetadataMap, file_metadata, file_chunks,
                   file_recipients, auth_users, public_users, reset_emails>>

\* The bucket refuses to write over the object that is at the path: the
\* upload returns an error and the handler answers 500.
UploadChunkRefused(r) ==
    /\ pc[r] = "upload"
    /\ ObjectExists(storage, StoragePathOf(fileID(r), chunkIndex(r)))
    /\ Respond(r, ErrorDetails(500, "Failed to upload chunk",
                               "The resource already exists"))
    /\ UNCHANGED <<serverHeld, cryptoVars, routerVars>>
    /\ UNCHANGED <<client, request, instance, fileMetadataLock, fileMetadataMap,
                   stores>>

\* database.CreateFileChunk inserts the row; the request that carries the
\* chunk total_chunks - 1 goes on to mark the file, any other answers 200.
CreateChunk(r) ==
    /\ pc[r] = "chunk"
    /\ ~FileChunkRejected(file_chunks, file_metadata, fileID(r), chunkIndex(r))
    /\ file_chunks' = file_chunks \cup
          {FileChunkRow(r, fileID(r), chunkIndex(r), chunkSize(r),
                        StoragePathOf(fileID(r), chunkIndex(r)), request[r].iv)}
    /\ IF chunkIndex(r) = totalChunks(r) - 1
       THEN /\ pc' = [pc EXCEPT ![r] = "complete"]
            /\ UNCHANGED <<response, local>>
       ELSE Respond(r, [status |-> 200, error |-> "", details |-> "",
                        storage_path |-> StoragePathOf(fileID(r), chunkIndex(r))])
    /\ UNCHANGED <<serverHeld, cryptoVars, routerVars>>
    /\ UNCHANGED <<client, request, instance, fileMetadataLock, fileMetadataMap,
                   file_metadata, file_recipients, auth_users, public_users,
                   storage, reset_emails>>

\* The insert fails and the handler answers 500.
CreateChunkFails(r) ==
    /\ pc[r] = "chunk"
    /\ FileChunkRejected(file_chunks, file_metadata, fileID(r), chunkIndex(r))
    /\ Respond(r, ErrorDetails(500, "Failed to store chunk metadata",
                               "violates a constraint of file_chunks"))
    /\ UNCHANGED <<serverHeld, cryptoVars, routerVars>>
    /\ UNCHANGED <<client, request, instance, fileMetadataLock, fileMetadataMap,
                   stores>>

\* database.MarkFileComplete(fileID), then the answer 200.
CompleteFile(r) ==
    /\ pc[r] = "complete"
    /\ file_metadata' = MarkFileComplete(file_metadata, fileID(r), r)
    /\ Respond(r, [status |-> 200, error |-> "", details |-> "",
                   storage_path |-> StoragePathOf(fileID(r), chunkIndex(r))])
    /\ UNCHANGED <<serverHeld, cryptoVars, routerVars>>
    /\ UNCHANGED <<client, request, instance, fileMetadataLock, fileMetadataMap,
                   file_chunks, file_recipients, auth_users, public_users,
                   storage, reset_emails>>

\* ------------------------------------------------------------ SignUpHandler

\* A person signs up with an e-mail that has no account: the account, then
\* the key record.
SignUp(e) ==
    /\ ~AdminCreateRejected(auth_users, e)
    /\ auth_users' = auth_users \cup
                        {[id |-> UserId(e, -1), email |-> Lower(e)]}
    /\ public_users' = public_users \cup {KeyRecord(UserId(e, -1))}
    /\ serverHeld' = serverHeld \cup KeysMadeFor(e, "req.Password")
    /\ UNCHANGED <<cryptoVars, routerVars>>
    /\ UNCHANGED <<client, request, instance, pc, local, response, fileMetadataLock,
                   fileMetadataMap, file_metadata, file_chunks,
                   file_recipients, storage, reset_emails>>

\* ------------------------------------------- calls that fail on their own

\* The bucket cannot be reached (or answers with an error of its own):
\* UploadEncryptedChunk returns the error, nothing is written, 500.
UploadChunkError(r) ==
    /\ pc[r] = "upload"
    /\ Respond(r, ErrorDetails(500, "Failed to upload chunk",
                               "storage unavailable"))
    /\ UNCHANGED <<serverHeld, cryptoVars, routerVars>>
    /\ UNCHANGED <<client, request, instance, fileMetadataLock, fileMetadataMap,
                   stores>>

\* The database fails the insert of the chunk row: no row, 500.
CreateChunkError(r) ==
    /\ pc[r] = "chunk"
    /\ Respond(r, ErrorDetails(500, "Failed to store chunk metadata",
                               "database unavailable"))
    /\ UNCHANGED <<serverHeld, cryptoVars, routerVars>>
    /\ UNCHANGED <<client, request, instance, fileMetadataLock, fileMetadataMap,
                   stores>>

\* database.CreateUser fails for the new user: CreateUserAndSendResetEmail
\* logs a warning and goes on to the reset e-mail.
SaveKeysFails(r) ==
    /\ pc[r] = "keys"
    /\ pc' = [pc EXCEPT ![r] = "reset"]
    /\ UNCHANGED <<serverHeld, cryptoVars, routerVars>>
    /\ UNCHANGED <<client, request, instance, local, response, fileMetadataLock,
                   fileMetadataMap, stores>>

\* A handler that gives up when the reset e-mail cannot be sent.
SendResetEmailAborts(r) ==
    /\ pc[r] = "reset"
    /\ Unlock(r)
    /\ Respond(r, ErrorResponse(500, "Failed to create user"))
    /\ UNCHANGED <<serverHeld, cryptoVars, routerVars>>
    /\ UNCHANGED <<client, request, instance, fileMetadataMap, stores>>

\* sendPasswordResetEmail fails: CreateUserAndSendResetEmail logs a warning
\* and returns the user, whose record joins the list.
SendResetEmailFails(r) ==
    /\ pc[r] = "reset"
    /\ Continue(r, AppendRecord(r, local[r].recipientID))
    /\ UNCHANGED <<serverHeld, cryptoVars, routerVars>>
    /\ UNCHANGED <<client, request, instance, response, fileMetadataLock,
                   fileMetadataMap, stores>>

\* SignUpHandler when database.CreateUser fails after signupWithRedirect
\* created the account: 500 "Failed to save user encryption keys", the
\* account stays.
SignUpKeysFail(e) ==
    /\ ~AdminCreateRejected(auth_users, e)
    /\ auth_users' = auth_users \cup
                        {[id |-> UserId(e, -1), email |-> Lower(e)]}
    /\ serverHeld' = serverHeld \cup KeysMadeFor(e, "req.Password")
    /\ UNCHANGED <<cryptoVars, routerVars>>
    /\ UNCHANGED <<client, request, instance, pc, local, response,
                   fileMetadataLock, fileMetadataMap, file_metadata,
                   file_chunks, file_recipients, public_users, storage,
                   reset_emails>>

\* database.CreateFileMetadataIfNotExists fails: no FileRecord, the handler
\* unlocks and answers 500.
CreateMetadataError(r) ==
    /\ pc[r] = "metadata"
    /\ Unlock(r)
    /\ Respond(r, ErrorDetails(500, "Failed to create file metadata",
                               "database unavailable"))
    /\ UNCHANGED <<serverHeld, cryptoVars, routerVars>>
    /\ UNCHANGED <<client, request, instance, fileMetadataMap, stores>>

\* A handler that sets fileMetadataMap[fileID] on this error path.
CheckUserErrorFlagged(r) ==
    /\ pc[r] = "exists"
    /\ Unlock(r)
    /\ fileMetadataMap' = [fileMetadataMap EXCEPT ![instance[r]] = @ \cup {fileID(r)}]
    /\ Respond(r, ErrorDetails(500, "Failed to check user existence",
                               "database unavailable"))
    /\ UNCHANGED <<serverHeld, cryptoVars, routerVars>>
    /\ UNCHANGED <<client, request, instance, stores>>

\* database.UserExistsByEmail fails: the handler unlocks and answers 500.
CheckUserError(r) ==
    /\ pc[r] = "exists"
    /\ Unlock(r)
    /\ Respond(r, ErrorDetails(500, "Failed to check user existence",
                               "database unavailable"))
    /\ UNCHANGED <<serverHeld, cryptoVars, routerVars>>
    /\ UNCHANGED <<client, request, instance, fileMetadataMap, stores>>

\* createUserWithAdminAPI fails on its own (the Auth service cannot be
\* reached): no account, the handler unlocks and answers 500.
CreateUserError(r) ==
    /\ pc[r] = "create"
    /\ Unlock(r)
    /\ Respond(r, ErrorDetails(500, "Failed to create user",
                               "auth service unavailable"))
    /\ serverHeld' = serverHeld \cup
                        KeysMadeFor(email(r), "generateSecurePassword")
    /\ UNCHANGED <<cryptoVars, routerVars>>
    /\ UNCHANGED <<client, request, instance, fileMetadataMap, stores>>

\* A handler that returns on this error path without fileMetadataLock.Unlock().
CreateRecipientsErrorLocked(r) ==
    /\ pc[r] = "recipients"
    /\ Len(local[r].recipientRecords) > 0
    /\ Respond(r, ErrorDetails(500, "Failed to store recipient info",
                               "database unavailable"))
    /\ UNCHANGED <<serverHeld, cryptoVars, routerVars>>
    /\ UNCHANGED <<client, request, instance, fileMetadataLock,
                   fileMetadataMap, stores>>

\* database.CreateFileRecipientsIfNotExists fails: the transaction is rolled
\* back (no row of it stays), the handler unlocks and answers 500.
CreateRecipientsError(r) ==
    /\ pc[r] = "recipients"
    /\ Len(local[r].recipientRecords) > 0
    /\ Unlock(r)
    /\ Respond(r, ErrorDetails(500, "Failed to store recipient info",
                               "database unavailable"))
    /\ UNCHANGED <<serverHeld, cryptoVars, routerVars>>
    /\ UNCHANGED <<client, request, instance, fileMetadataMap, stores>>

\* database.MarkFileComplete fails: the handler logs the error and answers
\* 200 all the same.
CompleteFileError(r) ==
    /\ pc[r] = "complete"
    /\ Respond(r, [status |-> 200, error |-> "", details |-> "",
                   storage_path |-> StoragePathOf(fileID(r), chunkIndex(r))])
    /\ UNCHANGED <<serverHeld, cryptoVars, routerVars>>
    /\ UNCHANGED <<client, request, instance, fileMetadataLock, fileMetadataMap,
                   stores>>

\* ------------------------------------------------ the Dashboard (sender)

\* const CHUNK_SIZE = 1024 * 1024 * 2
CHUNK_SIZE == 1024 * 1024 * 2

\* AES-GCM appends its authentication tag (128 bits) to the ciphertext.
TagLength == 16

\* Math.floor(a / b)
MathFloor(a, b) == a \div b

\* Math.ceil(a / b) of a size and a positive chunk size
MathCeil(a, b) == (a + b - 1) \div b

Min(a, b) == IF a < b THEN a ELSE b

\* getMimeType(file)
getMimeType(file) ==
    IF file.type = "" THEN "application/octet-stream" ELSE file.type

\* database.GetPublicKeysByEmails(emails): auth.users joined with
\* public.users on the id, for the accounts whose lowered e-mail is one of
\* the e-mails asked for; a map from the account's e-mail to its key.
GetPublicKeysByEmails(emails) ==
    LET asked == { emails[j] : j \in 1..Len(emails) }
        rows  == { <<au, pu>> \in auth_users \X public_users :
                     au.id = pu.id /\ Lower(au.email) \in asked }
    IN  [ e \in { row[1].email : row \in rows } |->
            (CHOOSE row \in rows : row[1].email = e)[2].public_key ]

\* A sender that wraps a key for every recipient, resolved or not.
everyRecipient(recipientPublicKeys, e) == TRUE

\* const publicKey = recipientPublicKeys[email]; if (publicKey)
hasPublicKey(recipientPublicKeys, e) == e \in DOMAIN recipientPublicKeys

\* const start = i * CHUNK_SIZE
sliceStart(i) == i * CHUNK_SIZE

\* A slice that is not cut at the end of the file.
sliceWhole(i, size) == sliceStart(i) + CHUNK_SIZE

\* const end = Math.min(start + CHUNK_SIZE, file.size)
sliceEnd(i, size) == Min(sliceStart(i) + CHUNK_SIZE, size)

\* chunkFile(file, recipientEmails, recipientPublicKeys) for the k-th file:
\* a file id, the file key wrapped for each recipient that has a public
\* key, and the chunks in index order, each encrypted under its own IV.
chunkFile(k, file, recipientEmails, recipientPublicKeys) ==
    LET fileId        == generateFileId(k)
        totalChunks_  == MathCeil(file.size, CHUNK_SIZE)
        encryptedKeys_ ==
            [ e \in { x \in { recipientEmails[j] :
                                 j \in 1..Len(recipientEmails) } :
                         hasPublicKey(recipientPublicKeys, x) } |-> Wrapped(e) ]
        chunk(i) ==
            LET start == sliceStart(i)
                end   == sliceEnd(i, file.size)
                iv    == generateIV(k, i)
            IN  [file_id           |-> fileId,
                 chunk_index       |-> i,
                 total_chunks      |-> totalChunks_,
                 chunk_data        |-> Ciphertext(iv),
                 original_filename |-> file.name,
                 file_size         |-> file.size,
                 chunk_size        |-> (end - start) + TagLength,
                 iv                |-> arrayBufferToBase64(iv),
                 encrypted_keys    |-> encryptedKeys_,
                 mime_type         |-> getMimeType(file)]
    IN  [file_id |-> fileId, total_chunks |-> totalChunks_,
         chunks |-> [ j \in 1..totalChunks_ |-> chunk(j - 1) ]]

\* userService.sendFileChunk(chunk, recipientEmails): the form posted to
\* /files/send-chunk, with the context values of the signed-in sender.
sendFileChunk(chunk, recipientEmails) ==
    [user_id           |-> CarolId,
     user_token        |-> "token",
     file_id           |-> chunk.file_id,
     chunk_index       |-> NumberToString(chunk.chunk_index),
     total_chunks      |-> NumberToString(chunk.total_chunks),
     original_filename |-> chunk.original_filename,
     file_size         |-> NumberToString(chunk.file_size),
     chunk_size        |-> NumberToString(chunk.chunk_size),
     iv                |-> chunk.iv,
     encrypted_keys    |-> JSONStringify(chunk.encrypted_keys),
     mime_type         |-> chunk.mime_type,
     recipient_emails  |-> recipientEmails,
     encrypted_chunk   |-> chunk.chunk_data]

\* The two upload loops: the first position at or after (fileIndex,
\* chunkIndex) = (f, c) that holds a chunk; f = Len(chunkedFiles) + 1 when
\* there is none.  Positions count from 1.
RECURSIVE Position(_, _, _)
Position(chunkedFiles, f, c) ==
    IF f > Len(chunkedFiles)
    THEN [fileIndex |-> f, chunkIndex |-> 1]
    ELSE IF c <= Len(chunkedFiles[f].chunks)
    THEN [fileIndex |-> f, chunkIndex |-> c]
    ELSE Position(chunkedFiles, f + 1, 1)

\* for (const file of files) chunked = await chunkFile(...), then the
\* upload loops start.
StartUpload(recipientPublicKeys) ==
    LET chunkedFiles ==
            [ k \in 1..Len(client.files) |->
                chunkFile(k, client.files[k], client.selectedUsers,
                          recipientPublicKeys) ]
        first == Position(chunkedFiles, 1, 1)
    IN  client' = [client EXCEPT !.pc = "upload",
                                 !.recipientPublicKeys = recipientPublicKeys,
                                 !.chunkedFiles = chunkedFiles,
                                 !.fileIndex = first.fileIndex,
                                 !.chunkIndex = first.chunkIndex]

\* The sender clicks Send: without a recipient or without a file the
\* Dashboard alerts and returns, otherwise it asks for the public keys.
handleSendFiles ==
    /\ client.pc = "form"
    /\ client' = [client EXCEPT !.pc =
                     IF Len(client.selectedUsers) = 0 \/ Len(client.files) = 0
                     THEN "alert" ELSE "keys"]
    /\ UNCHANGED <<serverHeld, cryptoVars, routerVars>>
    /\ UNCHANGED <<request, instance, pc, local, response, fileMetadataLock,
                   fileMetadataMap, stores>>

\* The public keys arrive.  When recipients are without a key the Dashboard
\* asks the sender whether to go on, otherwise it chunks the files.
ReceivePublicKeys ==
    /\ client.pc = "keys"
    /\ LET recipientPublicKeys == GetPublicKeysByEmails(client.selectedUsers)
           missingKeys ==
               { client.selectedUsers[j] : j \in 1..Len(client.selectedUsers) }
                 \ DOMAIN recipientPublicKeys
       IN  IF missingKeys # {}
           THEN client' = [client EXCEPT
                              !.pc = "confirm",
                              !.recipientPublicKeys = recipientPublicKeys]
           ELSE StartUpload(recipientPublicKeys)
    /\ UNCHANGED <<serverHeld, cryptoVars, routerVars>>
    /\ UNCHANGED <<request, instance, pc, local, response, fileMetadataLock,
                   fileMetadataMap, stores>>

\* window.confirm answered yes
Confirm ==
    /\ client.pc = "confirm"
    /\ StartUpload(client.recipientPublicKeys)
    /\ UNCHANGED <<serverHeld, cryptoVars, routerVars>>
    /\ UNCHANGED <<request, instance, pc, local, response, fileMetadataLock,
                   fileMetadataMap, stores>>

\* window.confirm answered no
Cancel ==
    /\ client.pc = "confirm"
    /\ client' = [client EXCEPT !.pc = "cancelled"]
    /\ UNCHANGED <<serverHeld, cryptoVars, routerVars>>
    /\ UNCHANGED <<request, instance, pc, local, response, fileMetadataLock,
                   fileMetadataMap, stores>>

\* await userService.sendFileChunk(chunk, recipientEmails): the chunk at
\* the loops' position is posted, one request at a time.
SendChunk ==
    /\ client.pc = "upload"
    /\ client.fileIndex <= Len(client.chunkedFiles)
    /\ Receive(1,
               sendFileChunk(
                   client.chunkedFiles[client.fileIndex].chunks[client.chunkIndex],
                   client.selectedUsers),
               "i1")
    /\ client' = [client EXCEPT !.pc = "wait"]

\* The request was answered 200: the loops go on, and the connection is
\* free for the next request.
ChunkUploaded ==
    /\ client.pc = "wait"
    /\ pc[1] = "done"
    /\ response[1].status = 200
    /\ LET next == Position(client.chunkedFiles, client.fileIndex,
                            client.chunkIndex + 1)
       IN  client' = [client EXCEPT !.pc = "upload",
                                    !.fileIndex = next.fileIndex,
                                    !.chunkIndex = next.chunkIndex]
    /\ pc' = [pc EXCEPT ![1] = "idle"]
    /\ request' = [request EXCEPT ![1] = NoRequest]
    /\ response' = [response EXCEPT ![1] = NoResponse]
    /\ UNCHANGED <<serverHeld, cryptoVars, routerVars>>
    /\ UNCHANGED <<instance, local, fileMetadataLock, fileMetadataMap,
                   stores>>

\* A Dashboard that logs the error of a chunk and goes on with the next.
UploadSkipped ==
    /\ client.pc = "wait"
    /\ pc[1] = "done"
    /\ response[1].status # 200
    /\ LET next == Position(client.chunkedFiles, client.fileIndex,
                            client.chunkIndex + 1)
       IN  client' = [client EXCEPT !.pc = "upload",
                                    !.fileIndex = next.fileIndex,
                                    !.chunkIndex = next.chunkIndex]
    /\ pc' = [pc EXCEPT ![1] = "idle"]
    /\ request' = [request EXCEPT ![1] = NoRequest]
    /\ response' = [response EXCEPT ![1] = NoResponse]
    /\ UNCHANGED <<serverHeld, cryptoVars, routerVars>>
    /\ UNCHANGED <<instance, local, fileMetadataLock, fileMetadataMap,
                   stores>>

\* The request was answered with an error: the Dashboard alerts it and
\* sends nothing more.
UploadFailed ==
    /\ client.pc = "wait"
    /\ pc[1] = "done"
    /\ response[1].status # 200
    /\ client' = [client EXCEPT !.pc = "failed"]
    /\ UNCHANGED <<serverHeld, cryptoVars, routerVars>>
    /\ UNCHANGED <<request, instance, pc, local, response, fileMetadataLock,
                   fileMetadataMap, stores>>

\* Both loops are through: alert('Files sent successfully!')
Finish ==
    /\ client.pc = "upload"
    /\ client.fileIndex > Len(client.chunkedFiles)
    /\ client' = [client EXCEPT !.pc = "sent"]
    /\ UNCHANGED <<serverHeld, cryptoVars, routerVars>>
    /\ UNCHANGED <<request, instance, pc, local, response, fileMetadataLock,
                   fileMetadataMap, stores>>

\* What the sender may have attached and selected before the click.
File(size, type) == [name |-> "a.pdf", size |-> size, type |-> type]

Forms ==
    { [NoClient EXCEPT !.files = files, !.selectedUsers = users] :
        files \in { <<>> } \cup
                  { <<File(size, "application/pdf")>> :
                      size \in {0, 1, CHUNK_SIZE, CHUNK_SIZE + 1,
                                2 * CHUNK_SIZE, 5 * 1024 * 1024} } \cup
                  { <<File(1, ""), File(CHUNK_SIZE + 1, "application/pdf")>> },
        users \in { <<>>, <<Alice>>, <<Bob>>, <<Alice, Bob>> } }

InitClient == InitServer /\ client \in Forms

\* ------------------------------------------------------------------- runs

\* The steps of a request whose chunk nobody sent before.
Ingest(r) ==
    \/ Lock(r) \/ CreateMetadata(r) \/ CheckUser(r) \/ GetUser(r)
    \/ CreateUser(r) \/ CreateUserFails(r) \/ SaveKeys(r)
    \/ SendResetEmail(r) \/ CreateRecipients(r) \/ UploadChunk(r)
    \/ CreateChunk(r) \/ CompleteFile(r)

Handler(r) ==
    \/ Ingest(r) \/ UploadChunkRefused(r) \/ CreateChunkFails(r)

Next ==
    \/ \E r \in Requests, q \in ValidRequests, n \in Instances :
          Receive(r, q, n) /\ UNCHANGED client
    \/ \E r \in Requests : Handler(r)
    \/ SignUp(Bob)

\* Requests that pass the handler's checks, served concurrently by two
\* instances, while people sign up.
Spec == Init /\ [][Next]_vars

\* Any request of the pool, well-formed or not, served one after the other
\* by one instance.
NextInput ==
    \/ \E r \in Requests, q \in RequestPool :
          /\ \A k \in 1..(r - 1) : pc[k] = "done"
          /\ Receive(r, q, "i1")
          /\ UNCHANGED client
    \/ \E r \in Requests : Handler(r)
    \/ SignUp(Bob)

SpecInput == Init /\ [][NextInput]_vars

\* One sender's Dashboard sends its files through one instance, while
\* people sign up.  (The file ids of a Dashboard are fresh, so no request of
\* it meets an object or a chunk row of its own path.)
NextClient ==
    \/ handleSendFiles \/ ReceivePublicKeys \/ Confirm \/ Cancel
    \/ SendChunk \/ ChunkUploaded \/ UploadFailed \/ Finish
    \/ Ingest(1)
    \/ SignUp(Bob)

SpecClient == InitClient /\ [][NextClient]_vars

\* Requests of one file served one after the other by one instance, while
\* the bucket, the database and the mail service may fail a call, and people
\* sign up.
FaultRequests == { ChunkRequest(1, 1), ChunkRequest(2, 2) }

NextFault ==
    \/ \E r \in Requests, q \in FaultRequests :
          /\ \A k \in 1..(r - 1) : pc[k] = "done"
          /\ Receive(r, q, "i1")
          /\ UNCHANGED client
    \/ \E r \in Requests :
          \/ Handler(r)
          \/ UploadChunkError(r) \/ CreateChunkError(r)
          \/ SaveKeysFails(r) \/ SendResetEmailFails(r)
    \/ SignUp(Bob) \/ SignUpKeysFail(Bob)

SpecFault == Init /\ [][NextFault]_vars

\* The chunks of one file of MaxRequests chunks, each sent once, in any
\* order, to any instance.
OrderRequests ==
    { [ChunkRequest(i, i) EXCEPT !.total_chunks = NumberToString(MaxRequests)] :
        i \in 0..(MaxRequests - 1) }

NextOrder ==
    \/ \E r \in Requests, q \in OrderRequests, n \in Instances :
          /\ \A k \in Requests : pc[k] # "idle" => request[k] # q
          /\ Receive(r, q, n)
          /\ UNCHANGED client
    \/ \E r \in Requests : Ingest(r)

SpecOrder == Init /\ [][NextOrder]_vars

\* The last chunk of a file, and a file of one chunk, sent (and sent again)
\* to one instance that serves them concurrently, while any call of the
\* metadata step or the completion update may fail, and people sign up.
MetadataRequests ==
    { ChunkRequest(2, 2),
      [BaseRequest EXCEPT !.file_id = F2, !.total_chunks = <<"1">>,
                          !.encrypted_keys = JSONStringify(<<>>),
                          !.recipient_emails = <<" bob@x.com ", " ">>] }

\* A step of the handler of request r, a call of it failing or not.
Step(r) ==
    \/ Handler(r)
    \/ CreateMetadataError(r) \/ CheckUserError(r) \/ CreateUserError(r)
    \/ CreateRecipientsError(r) \/ CompleteFileError(r)

NextMetadata ==
    \/ \E r \in Requests, q \in MetadataRequests :
          Receive(r, q, "i1") /\ UNCHANGED client
    \/ \E r \in Requests : Step(r)
    \/ SignUp(Bob)

SpecMetadata == Init /\ [][NextMetadata]_vars

\* Requests of one file whose handlers (goroutines of one instance) meet at
\* fileMetadataLock, any call of the metadata step failing or not.
NextLock ==
    \/ \E r \in Requests :
          Receive(r, ChunkRequest(2, 2), "i1") /\ UNCHANGED client
    \/ \E r \in Requests : Step(r)
    \/ SignUp(Bob)

\* Every call returns, and the scheduler runs every goroutine that can take
\* a step; sync.Mutex hands the lock to a goroutine that keeps waiting for it
\* (its starvation mode).
FairLock ==
    /\ Init /\ [][NextLock]_vars
    /\ \A r \in Requests : WF_vars(Step(r)) /\ SF_vars(Lock(r))

\* The first chunk of file 1, and a request of the same file_id that states
\* another name, size, chunk count and type and names another recipient;
\* served one after the other, each by any instance, while people sign up.
LaterRequests ==
    { ChunkRequest(0, 0),
      [ChunkRequest(1, 1) EXCEPT
          !.original_filename = "b.txt", !.file_size = <<"9">>,
          !.total_chunks = <<"2">>, !.mime_type = "text/plain",
          !.encrypted_keys = JSONStringify([e \in {Dave} |-> Wrapped(e)]),
          !.recipient_emails = <<Dave>>] }

NextLater ==
    \/ \E r \in Requests, q \in LaterRequests, n \in Instances :
          /\ \A k \in 1..(r - 1) : pc[k] = "done"
          /\ Receive(r, q, n)
          /\ UNCHANGED client
    \/ \E r \in Requests : Handler(r)
    \/ SignUp(Bob)

SpecLater == Init /\ [][NextLater]_vars

\* What the handlers and the Dashboard work on.
serverVars == <<request, instance, pc, local, response, fileMetadataLock,
                fileMetadataMap, stores, client, serverHeld>>

\* keys, err := crypto.GenerateUserKeys(password)
Generate(password) ==
    /\ Len(generatedKeys) < MaxCalls
    /\ generatedKeys' = Append(generatedKeys,
                               [password |-> password, drawn |-> reader,
                                keys |-> GenerateUserKeys(password, reader)])
    /\ reader' = reader + 3
    /\ UNCHANGED <<decrypted, serverVars, routerVars>>

\* DecryptPrivateKey on stored values (of one user or mixed from several,
\* or a text that is no base64) and a password.
Decrypt(encryptedPrivateKey, salt, iv, password) ==
    /\ decrypted' = [called |-> TRUE,
                     encryptedPrivateKey |-> encryptedPrivateKey,
                     salt |-> salt, iv |-> iv, password |-> password,
                     result |-> DecryptPrivateKey(encryptedPrivateKey, salt,
                                                  iv, password)]
    /\ UNCHANGED <<reader, generatedKeys, serverVars, routerVars>>

Stored(field) ==
    { generatedKeys[c].keys[field] : c \in 1..Len(generatedKeys) }
       \cup {NotBase64}

NextCrypto ==
    \/ \E password \in Passwords : Generate(password)
    \/ \E encryptedPrivateKey \in Stored("EncryptedPrivateKey"),
          salt \in Stored("Salt"), iv \in Stored("IV"),
          password \in Passwords :
          Decrypt(encryptedPrivateKey, salt, iv, password)

SpecCrypto == Init /\ [][NextCrypto]_vars

\* A request arrives at the router, which hands it to the route's handler:
\* to AuthMiddleware(handler) on a protected route, to the handler itself on
\* a public one.
Route(route, authorization, e) ==
    /\ httpRequest.stage \in {"none", "done"}
    /\ httpRequest' =
          [route |-> route, authorization |-> authorization, email |-> e,
           stage |-> IF route \in ProtectedRoutes THEN "middleware"
                     ELSE "handler",
           ctx |-> NoContext, invoked |-> route \notin ProtectedRoutes,
           response |-> NoAnswer]
    /\ UNCHANGED <<serverVars, cryptoVars>>

\* AuthMiddleware runs: it answers 401, or calls the handler with the user
\* in the context.
Authenticate ==
    /\ httpRequest.stage = "middleware"
    /\ LET auth == AuthMiddleware(httpRequest.authorization)
       IN  httpRequest' =
              [httpRequest EXCEPT
                 !.stage = IF auth.next THEN "handler" ELSE "done",
                 !.invoked = auth.next,
                 !.ctx = auth.ctx,
                 !.response = auth.response]
    /\ UNCHANGED <<serverVars, cryptoVars>>

\* The handler of a route other than the password reset request and the
\* chunk upload runs and answers.
Serve(status) ==
    /\ httpRequest.stage = "handler"
    /\ httpRequest.route \notin {"/password-reset/request", "/files/send-chunk"}
    /\ httpRequest' = [httpRequest EXCEPT !.stage = "done",
                                          !.response = Answer(status, "")]
    /\ UNCHANGED <<serverVars, cryptoVars>>

\* SendFileChunkHandler is called with the context AuthMiddleware made: it
\* reads user_id and user_token with r.Context().Value(key), which is nil
\* for a key the context does not have, and runs its checks on them and on
\* the form; a request that passes them goes on to the metadata step.
SendFileChunk(form) ==
    /\ httpRequest.stage = "handler"
    /\ httpRequest.route = "/files/send-chunk"
    /\ LET Value(key) == IF key \in DOMAIN httpRequest.ctx
                         THEN httpRequest.ctx[key] ELSE NULL
           q == [form EXCEPT
                    !.user_id = Value("user_id"),
                    !.user_token = IF Value("user_token") = NULL THEN ""
                                   ELSE Value("user_token")]
       IN  httpRequest' =
              [httpRequest EXCEPT
                 !.stage = "done",
                 !.response = IF Validate(q).status # 0
                              THEN Answer(Validate(q).status, Validate(q).error)
                              ELSE Answer(200, "")]
    /\ UNCHANGED <<serverVars, cryptoVars>>

\* RequestPasswordResetHandler: a body that fails the validation is answered
\* 400; otherwise sendPasswordResetEmail is called, which may fail, and
\* which sends an e-mail only to an address that has an account.
RequestPasswordReset(failed) ==
    /\ httpRequest.stage = "handler"
    /\ httpRequest.route = "/password-reset/request"
    /\ LET e    == httpRequest.email
           sent == ~failed /\ UserExistsByEmail(auth_users, e)
       IN  IF ValidateReset(e).status # 0
           THEN /\ ~failed
                /\ httpRequest' = [httpRequest EXCEPT
                                      !.stage = "done",
                                      !.response = ValidateReset(e)]
                /\ UNCHANGED reset_emails
           ELSE /\ httpRequest' = [httpRequest EXCEPT
                                      !.stage = "done",
                                      !.response = ResetAnswer(sent)]
                /\ reset_emails' = IF sent THEN reset_emails \cup {e}
                                   ELSE reset_emails
    /\ UNCHANGED <<request, instance, pc, local, response, fileMetadataLock,
                   fileMetadataMap, file_metadata, file_chunks,
                   file_recipients, auth_users, public_users, storage,
                   client, serverHeld, cryptoVars>>

HandlerStatuses == {200, 400, 500}

NextRouter ==
    \/ \E route \in ProtectedRoutes \cup {"/health"},
          authorization \in Headers :
          Route(route, authorization, "")
    \/ \E authorization \in {<<>>, Bearer("token of carol")},
          e \in ResetEmails :
          Route("/password-reset/request", authorization, e)
    \/ Authenticate
    \/ \E status \in HandlerStatuses : Serve(status)
    \/ \E form \in {BaseRequest, ChunkRequest(1, 1)} : SendFileChunk(form)
    \/ \E failed \in BOOLEAN : RequestPasswordReset(failed)

SpecRouter == Init /\ [][NextRouter]_vars

\* ----------------------------------------------------------------- claims

FileIds == {F1, F2}
Received(r) == pc[r] # "idle"
Done(r) == pc[r] = "done"
AllDone == \A r \in Requests : Done(r)

\* The request passed the handler's checks (it was not answered 400 / 401).
Accepted(r) == Received(r) /\ Validate(request[r]).status = 0

\* The e-mails request r names, trimmed, without the blank ones.
Named(r) ==
    { TrimSpace(request[r].recipient_emails[j]) :
        j \in 1..Len(request[r].recipient_emails) } \ {""}

FileRecords(f) == { row \in file_metadata : row.file_id = f }
RecipientRecords(f, e) ==
    { row \in file_recipients : row.file_id = f /\ row.recipient_email = e }
ChunkRecords(f, i) ==
    { row \in file_chunks : row.file_id = f /\ row.chunk_index = i }

\* No account of the run was made by a sign-up.
NoSignUp == \A u \in auth_users : u.id[2] # -1

\* C1: however the chunk-upload requests of a file interleave (at one
\* instance or at several), no state holds two FileRecords for its file_id,
\* and once all requests have been answered and one of them was accepted,
\* exactly one FileRecord for it exists.
C1_OneFileRecord ==
    \A f \in FileIds :
       /\ Cardinality(FileRecords(f)) <= 1
       /\ (AllDone /\ \E r \in Requests : Accepted(r) /\ fileID(r) = f)
             => Cardinality(FileRecords(f)) = 1

\* Two requests of one file at the same instance were both ingested.
C1_Witness ==
    /\ \A r \in Requests :
          /\ Done(r) /\ fileID(r) = F1 /\ instance[r] = "i1"
          /\ response[r].status = 200
    /\ Cardinality(FileRecords(F1)) = 1

\* C2: the store never holds two RecipientRecords with the same
\* (file_id, recipient_email); and when the requests of the run are all for
\* one file, are all answered, one was accepted and nobody signed up
\* meanwhile, exactly one RecipientRecord exists per e-mail they name.
C2_OneRecipientRecord ==
    /\ \A f \in FileIds : \A e \in {Alice, Bob} :
          Cardinality(RecipientRecords(f, e)) <= 1
    /\ \A f \in FileIds :
          (/\ AllDone /\ NoSignUp
           /\ \A r \in Requests : Accepted(r) /\ fileID(r) = f)
          => \A r \in Requests : \A e \in Named(r) :
                Cardinality(RecipientRecords(f, e)) = 1

\* Two requests of one file at different instances, both past the metadata
\* step, bob's account made by one of them.
C2_Witness ==
    /\ AllDone /\ NoSignUp
    /\ \A r \in Requests : fileID(r) = F1 /\ response[r].status = 200
    /\ instance[1] # instance[2]
    /\ Cardinality(RecipientRecords(F1, Bob)) = 1
    /\ Cardinality(RecipientRecords(F1, Alice)) = 1

C4_RaceRecovered ==
    \A r \in Requests :
       ~(Done(r) /\ response[r].status = 500
                 /\ response[r].error = "Failed to create user")

\* C5: requests of one file at different instances (nobody signing up) give
\* one FileRecord and one RecipientRecord per recipient, and neither request
\* is answered with an error of the metadata step.
C5_LoserProceeds ==
    \A r1, r2 \in Requests :
       (/\ Received(r1) /\ Received(r2) /\ NoSignUp
        /\ instance[r1] # instance[r2]
        /\ fileID(r1) = fileID(r2))
       => /\ Cardinality(FileRecords(fileID(r1))) <= 1
          /\ \A e \in Named(r1) :
                Cardinality(RecipientRecords(fileID(r1), e)) <= 1
          /\ response[r1].error \notin
                {"Failed to create file metadata", "Failed to create user",
                 "Failed to check user existence",
                 "Failed to store recipient info"}

\* C6: the store never holds two ChunkRecords for one (file_id, chunk_index).
C6_OneChunkRecord ==
    \A f \in FileIds : \A i \in 0..9 :
       Cardinality(ChunkRecords(f, i)) <= 1

\* A second request for a chunk that has its record was answered 500 by the
\* insert, and the record is the one of the first.
C6_Witness ==
    \E r1, r2 \in Requests :
       /\ r1 # r2
       /\ response[r2].error = "Failed to store chunk metadata"
       /\ ChunkRecords(fileID(r2), chunkIndex(r2)) =
             {FileChunkRow(r1, fileID(r1), chunkIndex(r1), chunkSize(r1),
                           StoragePathOf(fileID(r1), chunkIndex(r1)),
                           request[r1].iv)}

C8_CompleteWithLastChunk ==
    \A row \in file_metadata :
       /\ row.completed_at # 0
            => ChunkRecords(row.file_id, row.total_chunks - 1) # {}
       /\ (\E r \in Requests :
              /\ Done(r) /\ response[r].status = 200
              /\ fileID(r) = row.file_id
              /\ chunkIndex(r) = row.total_chunks - 1)
            => row.completed_at # 0

\* The accounts there were before the run.
InitialUsers == { [id |-> CarolId, email |-> Carol],
                  [id |-> AliceId, email |-> Alice] }

\* The sender attached one file of 5 MB and selected alice (who has an
\* account) and bob (who has none), and the Dashboard reported success.
FiveMegabytesSent ==
    /\ client.pc = "sent"
    /\ Len(client.files) = 1
    /\ client.files[1].size = 5 * 1024 * 1024
    /\ client.selectedUsers = <<Alice, Bob>>

\* C9: a file of 5 MB sent by the Dashboard to alice (known) and bob
\* (unknown) through the handler leaves exactly one FileRecord, with
\* total_chunks = 3, exactly three ChunkRecords, with the indices 0, 1, 2,
\* exactly two RecipientRecords (alice's and bob's), and exactly one account
\* more than before, bob's.
C9_FiveMegabytes ==
    FiveMegabytesSent =>
       LET f == client.chunkedFiles[1].file_id
       IN  /\ Cardinality(file_metadata) = 1
           /\ \A row \in file_metadata :
                 row.file_id = f /\ row.total_chunks = 3
           /\ Cardinality(file_chunks) = 3
           /\ \A row \in file_chunks : row.file_id = f
           /\ { row.chunk_index : row \in file_chunks } = {0, 1, 2}
           /\ Cardinality(file_recipients) = 2
           /\ \A row \in file_recipients : row.file_id = f
           /\ { row.recipient_email : row \in file_recipients } = {Alice, Bob}
           /\ Cardinality(auth_users \ InitialUsers) = 1
           /\ \A u \in auth_users \ InitialUsers : u.email = Bob

\* The transfer went through and the handler of its first chunk made bob's
\* account and sent him the reset e-mail.
C9_Witness ==
    /\ FiveMegabytesSent
    /\ [id |-> UserId(Bob, 1), email |-> Bob] \in auth_users
    /\ reset_emails = {Bob}
    /\ Cardinality(storage) = 3

\* C10: a request without file_id, chunk_index, chunk_count or nonce, or
\* without any wrapped key (no key object, or one with no entry), is
\* answered 400.
C10_MissingRejected ==
    \A r \in Requests :
       (/\ Received(r)
        /\ \/ request[r].file_id = <<>>
           \/ request[r].chunk_index = <<>>
           \/ request[r].total_chunks = <<>>
           \/ request[r].iv = <<>>
           \/ DOMAIN request[r].encrypted_keys.members = {})
       => (Done(r) /\ response[r].status \in {400, 401})

\* The chunk index of the request lies in [0, total_chunks) of the request.
IndexInRange(q) ==
    /\ 0 <= Atoi(q.chunk_index).val
    /\ Atoi(q.chunk_index).val < Atoi(q.total_chunks).val

\* C11: every ChunkRecord has 0 <= chunk_index < total_chunks of the
\* FileRecord of its file, a request with another index being rejected.
C11_IndexInRange ==
    /\ \A row \in file_chunks : \A file \in FileRecords(row.file_id) :
          0 <= row.chunk_index /\ row.chunk_index < file.total_chunks
    /\ \A r \in Requests :
          (Accepted(r) /\ ~IndexInRange(request[r]))
          => (Done(r) /\ response[r].status = 400)

\* C12: the step that answers a request 400 (a missing or malformed field,
\* no recipients, no payload) changes neither the metadata store, nor the
\* blob store, nor the accounts, nor the map of the lock.
C12_RejectedNoEffect ==
    [][\A r \in Requests :
         (response[r].status # 400 /\ response'[r].status = 400)
         => UNCHANGED <<stores, fileMetadataMap>>]_vars

\* A request was answered 400 after another had been ingested, whose records
\* and object are there.
C12_Witness ==
    /\ response[1].status = 200
    /\ response[2].status = 400
    /\ file_metadata # {} /\ file_chunks # {} /\ file_recipients # {}
    /\ storage # {}
    /\ fileMetadataMap["i1"] # {}

\* The path of the chunk of request r, and its answer when it is ingested.
PathOf(r) == StoragePathOf(fileID(r), chunkIndex(r))
Acknowledged(r) == Done(r) /\ response[r].status = 200

\* C13: a request answered 200 names the path of its chunk, the object at
\* that path and the ChunkRecord of its (file_id, chunk_index) exist; a
\* request leaves the upload without the object of its chunk at the path, or
\* the insert without a new ChunkRecord, only with the answer 500.
C13_BothWritesOrError ==
    /\ [](\A r \in Requests :
            Acknowledged(r)
            => /\ response[r].storage_path = PathOf(r)
               /\ ObjectExists(storage, PathOf(r))
               /\ ChunkRecords(fileID(r), chunkIndex(r)) # {})
    /\ [][\A r \in Requests :
            /\ (/\ pc[r] = "upload" /\ pc'[r] # "upload"
                /\ [path |-> PathOf(r), data |-> request[r].encrypted_chunk]
                      \notin storage')
               => (pc'[r] = "done" /\ response'[r].status = 500)
            /\ (/\ pc[r] = "chunk" /\ pc'[r] # "chunk"
                /\ file_chunks' = file_chunks)
               => (pc'[r] = "done" /\ response'[r].status = 500)]_vars

\* One request failed at the upload, one at the insert after its upload, and
\* the store holds an object without ChunkRecord.
C13_Witness ==
    /\ response[1].error = "Failed to store chunk metadata"
    /\ response[2].error = "Failed to upload chunk"
    /\ response[2].details = "storage unavailable"
    /\ storage # {}
    /\ file_chunks = {}

\* The database failed the insert of the chunk of request 1, after its
\* upload.
InsertFailed ==
    /\ Done(1)
    /\ response[1].error = "Failed to store chunk metadata"
    /\ response[1].details = "database unavailable"

\* C14: when the insert of a chunk failed after its upload, the chunk has no
\* ChunkRecord as long as nobody sends it again, and the same request sent
\* again, when no call of it fails on its own, is answered 200 and has its
\* ChunkRecord.
C14_RetrySafe ==
    InsertFailed =>
       /\ pc[2] = "idle" => ChunkRecords(fileID(1), chunkIndex(1)) = {}
       /\ (/\ request[2] = request[1] /\ Done(2)
           /\ response[2].details \notin
                 {"storage unavailable", "database unavailable"})
          => /\ response[2].status = 200
             /\ ChunkRecords(fileID(1), chunkIndex(1)) # {}

\* Request r made the account of e.
Provisioned(r, e) == [id |-> UserId(e, r), email |-> e] \in auth_users

\* C15: a request that made a recipient's account and could not send the
\* reset e-mail is not answered with an error of the metadata step: the
\* account is there, the RecipientRecord holds its id, and the request is
\* answered 200 unless its upload or its insert failed.
C15_NotificationFailure ==
    \A r \in Requests :
       (Done(r) /\ Provisioned(r, Bob) /\ Bob \notin reset_emails)
       => /\ \E row \in RecipientRecords(fileID(r), Bob) :
                row.recipient_id = UserId(Bob, r)
          /\ \/ response[r].status = 200
             \/ response[r].error \in {"Failed to upload chunk",
                                       "Failed to store chunk metadata"}

\* The reset e-mail of bob failed and the request was ingested.
C15_Witness ==
    \E r \in Requests :
       /\ Acknowledged(r) /\ Provisioned(r, Bob)
       /\ reset_emails = {}
       /\ ChunkRecords(fileID(r), chunkIndex(r)) # {}
       /\ \E row \in RecipientRecords(fileID(r), Bob) :
             row.recipient_id = UserId(Bob, r)

\* The key records of an account.
UserKeyRecords(id) == { k \in public_users : k.id = id }

\* C20: every account made in the run, by a sign-up that was answered or by
\* a provisioning that returned, has exactly one UserKeyRecord.
C20_OneKeyRecord ==
    \A u \in auth_users \ InitialUsers :
       (\A r \in Requests : pc[r] = "keys" => local[r].recipientID # u.id)
       => Cardinality(UserKeyRecords(u.id)) = 1

\* The metadata state the chunks of the file of OrderRequests end in: every
\* request acknowledged, one FileRecord, one RecipientRecord for each named
\* recipient (with the id of the recipient's account and the recipient's
\* wrapped key), and ChunkRecords for exactly the indices 0..n-1.
OrderState ==
    /\ \A r \in Requests : response[r].status = 200
    /\ Cardinality(FileRecords(F1)) = 1
    /\ \A row \in FileRecords(F1) : row.total_chunks = MaxRequests
    /\ { row.recipient_email : row \in { x \in file_recipients : x.file_id = F1 } }
          = {Alice, Bob}
    /\ \A e \in {Alice, Bob} :
          /\ Cardinality(RecipientRecords(F1, e)) = 1
          /\ \A row \in RecipientRecords(F1, e) :
                /\ \E u \in auth_users : u.email = e /\ u.id = row.recipient_id
                /\ row.encrypted_file_key =
                      (IF e = Alice THEN Wrapped(Alice) ELSE <<>>)
    /\ { row.chunk_index : row \in { x \in file_chunks : x.file_id = F1 } }
          = 0..(MaxRequests - 1)
    /\ \A i \in 0..(MaxRequests - 1) : Cardinality(ChunkRecords(F1, i)) = 1

\* C16: the n chunk-upload requests of a file, in any order and however they
\* interleave, end in the same metadata state, every request acknowledged
\* as success.
C16_OrderIndependent == AllDone => OrderState

\* Request r waits in fileMetadataLock.Lock() while request k of its
\* instance holds the mutex.
BlockedBy(r, k) ==
    /\ pc[r] = "lock"
    /\ k # r
    /\ instance[k] = instance[r]
    /\ fileMetadataLock[instance[r]] = k

\* Request r holds the mutex of its instance.
HoldsLock(r) == fileMetadataLock[instance[r]] = r

\* C17: the mutual exclusion around metadata and recipient creation is
\* scoped to the file_id: no request waits for the mutex while a request
\* for another file_id holds it, and no request holds the mutex at its
\* upload or at the insert of its ChunkRecord.
C17_LockPerFile ==
    /\ \A r, k \in Requests : BlockedBy(r, k) => fileID(r) = fileID(k)
    /\ \A r \in Requests :
          pc[r] \in {"upload", "chunk", "complete"} => ~HoldsLock(r)

\* C18: the server never has, in the clear, a password that unwraps a
\* user's private key, nor a private key: whatever account is created, by
\* a sign-up or for a recipient, both exist in the clear on the client only.
C18_ServerNeverHolds ==
    \A u \in auth_users :
       ~\E s \in serverHeld :
          s.of = u.email /\ s.secret \in {"password", "private key"}

\* A value is a wrapped file key, or the empty text.
WrappedOrEmpty(v) == Len(v) > 0 => v[1] = "wrapped"

\* A value is AES-GCM ciphertext, and nonce is the base64 text of the IV
\* it was made with.
CiphertextUnder(v, nonce) ==
    /\ v.present
    /\ v.iv[1] = "iv"
    /\ arrayBufferToBase64(v.iv) = nonce

\* C19: no request of the Dashboard and no row or object the handler writes
\* holds the raw file key or plaintext: the chunk is ciphertext made with
\* the nonce sent along, every entry of encrypted_keys is a wrapped key,
\* and the rows and objects hold these values and metadata only.
C19_OnlyCiphertext ==
    /\ \A r \in Requests : Received(r) =>
          /\ CiphertextUnder(request[r].encrypted_chunk, request[r].iv)
          /\ request[r].encrypted_keys.kind = "object"
          /\ \A e \in DOMAIN request[r].encrypted_keys.members :
                /\ request[r].encrypted_keys.members[e][1] = "wrapped"
                /\ request[r].encrypted_keys.members[e][2] = e
    /\ \A row \in file_recipients : WrappedOrEmpty(row.encrypted_file_key)
    /\ \A o \in storage :
          /\ o.data.present /\ o.data.iv[1] = "iv"
          /\ \A row \in file_chunks :
                row.storage_path = o.path
                   => CiphertextUnder(o.data, row.encryption_iv)
    /\ \A row \in file_chunks : ObjectExists(storage, row.storage_path)
    /\ \A row \in file_metadata :
          DOMAIN row = {"id", "file_id", "sender_id", "original_filename",
                        "file_size", "total_chunks", "mime_type",
                        "completed_at"}

\* The Dashboard sent a file to alice and bob, and the handler stored
\* alice's wrapped key and the ciphertext of a chunk.
C19_Witness ==
    /\ client.pc = "sent"
    /\ \E row \in file_recipients :
          row.recipient_email = Alice /\ Len(row.encrypted_file_key) > 0
    /\ \E o \in storage : o.data.present

\* Request r wrote an object or a ChunkRecord in this step.
Wrote(r) ==
    \/ pc[r] = "upload" /\ pc'[r] = "chunk" /\ storage' # storage
    \/ \E row \in file_chunks' \ file_chunks : row.id = r

\* C21: users only upload chunks for their own files: a request of user U
\* writes an object or a ChunkRecord for file_id F only if the FileRecord
\* of F (its own, just created, or one that was there) has sender_id = U.
C21_OwnFilesOnly ==
    [][\A r \in Requests :
          Wrote(r) => \A row \in FileRecords(fileID(r)) :
                         row.sender_id = request[r].user_id]_vars

\* The files the Dashboard has chunked, by their position in the form.
Chunked == 1..Len(client.chunkedFiles)

\* The units of the k-th file, in the order chunkFile pushed them.
Units(k) == client.chunkedFiles[k].chunks

\* C22: a file of size >= 1 gives exactly ceil(size / CHUNK_SIZE) units;
\* their indices are 0..n-1 in order, and the byte ranges they encrypt are
\* not empty, start at 0, each begins where the one before ends, and the
\* last ends at size.
C22_DenseContiguous ==
    \A k \in Chunked :
       LET size == client.files[k].size
           n    == Len(Units(k))
       IN  size >= 1 =>
             /\ n * CHUNK_SIZE >= size
             /\ (n - 1) * CHUNK_SIZE < size
             /\ \A j \in 1..n :
                   /\ Units(k)[j].chunk_index = j - 1
                   /\ sliceStart(j - 1) < sliceEnd(j - 1, size)
                   /\ Units(k)[j].chunk_size =
                         sliceEnd(j - 1, size) - sliceStart(j - 1) + TagLength
                   /\ Units(k)[j].chunk_size - TagLength <= CHUNK_SIZE
                   /\ j < n => sliceEnd(j - 1, size) = sliceStart(j)
             /\ sliceStart(0) = 0
             /\ sliceEnd(n - 1, size) = size

\* A file of two chunks and a half was chunked into three units, the last
\* of them half a chunk long.
C22_Witness ==
    \E k \in Chunked :
       /\ client.files[k].size = 5 * 1024 * 1024
       /\ Len(Units(k)) = 3
       /\ Units(k)[3].chunk_size = 1024 * 1024 + TagLength

\* C23: the units of one file carry the same file_id, the same total_chunks
\* (the number of the file's units) and the same encrypted_keys; the units
\* of different files of a transfer carry different file_ids.
C23_SameFileSameValues ==
    /\ \A k \in Chunked : \A j \in 1..Len(Units(k)) :
          /\ Units(k)[j].file_id = client.chunkedFiles[k].file_id
          /\ Units(k)[j].total_chunks = Len(Units(k))
          /\ Units(k)[j].encrypted_keys = Units(k)[1].encrypted_keys
    /\ \A k1, k2 \in Chunked :
          k1 # k2 => client.chunkedFiles[k1].file_id
                        # client.chunkedFiles[k2].file_id

\* Two files were chunked for alice and bob, one of them into two units.
C23_Witness ==
    /\ Len(client.chunkedFiles) = 2
    /\ Len(Units(2)) = 2
    /\ DOMAIN Units(2)[2].encrypted_keys = {Alice}
    /\ client.selectedUsers = <<Alice, Bob>>

\* The unit at the position of the Dashboard's upload loops.
UnitAt(c) == c.chunkedFiles[c.fileIndex].chunks[c.chunkIndex]

\* The loops have started and stand at a unit.
AtUnit(c) ==
    /\ c.pc \in {"upload", "wait", "failed"}
    /\ c.fileIndex \in 1..Len(c.chunkedFiles)

\* C24: the Dashboard uploads the chunks one at a time in increasing index
\* order: it issues a request only when none is outstanding, for the unit
\* its loops stand at; the loops move on (to the next index of the file, or
\* from a file's last unit to the first of a later file) only when the
\* request for the unit they stand at was answered 200; and after a failed
\* upload it issues no request and moves no further.
C24_OneAtATimeInOrder ==
    [][/\ (pc[1] = "idle" /\ pc'[1] # "idle") =>
             /\ client.pc = "upload"
             /\ AtUnit(client)
             /\ request'[1] = sendFileChunk(UnitAt(client), client.selectedUsers)
             /\ UnitAt(client).chunk_index = client.chunkIndex - 1
       /\ (/\ AtUnit(client)
           /\ <<client.fileIndex, client.chunkIndex>>
                 # <<client'.fileIndex, client'.chunkIndex>>) =>
             /\ pc[1] = "done"
             /\ response[1].status = 200
             /\ request[1] = sendFileChunk(UnitAt(client), client.selectedUsers)
             /\ \/ /\ client'.fileIndex = client.fileIndex
                   /\ client'.chunkIndex = client.chunkIndex + 1
                   /\ client'.chunkIndex
                         <= Len(client.chunkedFiles[client.fileIndex].chunks)
                \/ /\ client'.fileIndex > client.fileIndex
                   /\ client'.chunkIndex = 1
                   /\ client.chunkIndex
                         = Len(client.chunkedFiles[client.fileIndex].chunks)
       /\ client.pc = "failed" =>
             /\ client' = client
             /\ request' = request
             /\ pc'[1] = pc[1]]_vars

\* The upload of a unit failed while units of the file were still to send.
C24_Witness ==
    /\ client.pc = "failed"
    /\ AtUnit(client)
    /\ response[1].status = 500
    /\ client.chunkIndex < Len(client.chunkedFiles[client.fileIndex].chunks)

\* The recipients the sender selected.
Selected == { client.selectedUsers[j] : j \in 1..Len(client.selectedUsers) }

\* C25: encrypted_keys of a file's units has one entry, the key wrapped for
\* that recipient, for each selected recipient whose public key the
\* public-key request returned, and no entry for any other recipient; every
\* request still names all selected recipients.
C25_KeysForResolvedOnly ==
    /\ \A k \in Chunked : \A j \in 1..Len(Units(k)) :
          /\ DOMAIN Units(k)[j].encrypted_keys
                = Selected \cap DOMAIN client.recipientPublicKeys
          /\ \A e \in DOMAIN Units(k)[j].encrypted_keys :
                Units(k)[j].encrypted_keys[e][2] = e
    /\ (client.pc = "wait" /\ Received(1)) =>
          /\ request[1].recipient_emails = client.selectedUsers
          /\ DOMAIN request[1].encrypted_keys.members
                = Selected \cap DOMAIN client.recipientPublicKeys

\* A request for alice (resolved) and bob (no key) is under way: it names
\* both and carries a key for alice only.
C25_Witness ==
    /\ client.pc = "wait" /\ Received(1)
    /\ request[1].recipient_emails = <<Alice, Bob>>
    /\ DOMAIN client.recipientPublicKeys = {Alice}
    /\ DOMAIN request[1].encrypted_keys.members = {Alice}

Calls == 1..Len(generatedKeys)

\* DecryptPrivateKey was called on the wrapped key, salt and nonce that
\* call c of GenerateUserKeys returned.
DecryptedOf(c) ==
    /\ decrypted.called
    /\ decrypted.encryptedPrivateKey = generatedKeys[c].keys.EncryptedPrivateKey
    /\ decrypted.salt = generatedKeys[c].keys.Salt
    /\ decrypted.iv = generatedKeys[c].keys.IV

\* C26: unwrapping with password P what GenerateUserKeys(P) returned gives
\* exactly the private key (PEM) that call generated, and no error.
C26_RoundTrip ==
    \A c \in Calls :
       (DecryptedOf(c) /\ decrypted.password = generatedKeys[c].password)
          => /\ ~decrypted.result.err
             /\ decrypted.result.value = privateKeyPEM(generatedKeys[c].drawn)

\* The second of two wrapped keys was unwrapped with its password.
C26_Witness ==
    /\ Len(generatedKeys) = 2
    /\ DecryptedOf(2)
    /\ decrypted.password = generatedKeys[2].password
    /\ ~decrypted.result.err

\* C27: unwrapping with another password than the one a key was wrapped
\* under returns an error and the empty text, never a key.
C27_WrongPassword ==
    \A c \in Calls :
       (DecryptedOf(c) /\ decrypted.password # generatedKeys[c].password)
          => /\ decrypted.result.err
             /\ decrypted.result.value = <<>>

\* A wrapped key was unwrapped with another password, which failed.
C27_Witness ==
    \E c \in Calls :
       /\ DecryptedOf(c)
       /\ decrypted.password # generatedKeys[c].password
       /\ decrypted.result.err

\* C28: any two calls of GenerateUserKeys, also with the same password,
\* return different salts, different nonces and different key pairs.
C28_FreshValues ==
    \A c1, c2 \in Calls :
       c1 # c2 =>
          /\ generatedKeys[c1].keys.Salt # generatedKeys[c2].keys.Salt
          /\ generatedKeys[c1].keys.IV # generatedKeys[c2].keys.IV
          /\ generatedKeys[c1].keys.PublicKeyPEM
                # generatedKeys[c2].keys.PublicKeyPEM
          /\ generatedKeys[c1].keys.EncryptedPrivateKey
                # generatedKeys[c2].keys.EncryptedPrivateKey

\* GenerateUserKeys was called twice with the same password.
C28_Witness ==
    /\ Len(generatedKeys) = 2
    /\ generatedKeys[1].password = generatedKeys[2].password

\* The header is "Bearer <token>" with a token the auth service accepts.
ValidBearer(authorization) ==
    authorization \in {Bearer("token of carol"), Bearer("token of alice")}

\* C29: the handler of a protected route runs only after AuthMiddleware
\* verified the bearer token of the request (and then with that token's
\* user in the context); a request whose Authorization header is missing,
\* malformed or invalid is answered 401 and its handler is never invoked.
C29_VerifiedOnProtectedRoutes ==
    httpRequest.route \in ProtectedRoutes =>
       /\ httpRequest.invoked =>
             /\ ValidBearer(httpRequest.authorization)
             /\ httpRequest.ctx.user_id
                   = UserId(httpRequest.ctx.user_email, 0)
             /\ httpRequest.authorization
                   = Bearer(IF httpRequest.ctx.user_email = Carol
                            THEN "token of carol" ELSE "token of alice")
       /\ httpRequest.stage = "handler" => httpRequest.invoked
       /\ (~ValidBearer(httpRequest.authorization)
             /\ httpRequest.stage = "done") =>
             /\ ~httpRequest.invoked
             /\ httpRequest.response.status = 401

\* A send-chunk request with an expired token was answered 401 without its
\* handler having run.
C29_Witness ==
    /\ httpRequest.route = "/files/send-chunk"
    /\ httpRequest.authorization = Bearer("expired")
    /\ httpRequest.stage = "done"
    /\ httpRequest.response = Answer(401, "Invalid or expired token")
    /\ ~httpRequest.invoked

\* C30: the password reset request does not tell whether an account
\* exists: for every well-formed address, with or without an account, and
\* whether or not the reset e-mail could be sent, the response is the same
\* status and the same body.
C30_NoEnumeration ==
    (/\ httpRequest.route = "/password-reset/request"
     /\ httpRequest.stage = "done"
     /\ isValidEmail(httpRequest.email)) =>
        httpRequest.response =
           Answer(200, "If an account with that email exists, a password reset link has been sent.")

\* A reset was requested for an address without account, after one for an
\* address with an account had sent its e-mail.
C30_Witness ==
    /\ httpRequest.route = "/password-reset/request"
    /\ httpRequest.stage = "done"
    /\ httpRequest.email = Bob
    /\ ~UserExistsByEmail(auth_users, Bob)
    /\ reset_emails = {Alice}
    /\ httpRequest.response.status = 200

\* The "metadata created" flag of file f at the instance of request r.
Flag(r) == fileID(r) \in fileMetadataMap[instance[r]]

\* The step of request r sets the flag of its file.
SetsFlag(r) == /\ pc'[r] # pc[r]
               /\ ~Flag(r)
               /\ fileID(r) \in fileMetadataMap'[instance[r]]

\* C31: a request is answered 200 only when the flag of its file is true; the
\* flag of a file is true only when its FileRecord exists; the step of a
\* request that sets the flag leaves a RecipientRecord for every non-blank
\* recipient the request names; and no step removes a FileRecord's file or a
\* RecipientRecord.
C31_SuccessHasMetadata ==
    /\ [](\A r \in Requests :
             (Done(r) /\ response[r].status = 200) => Flag(r))
    /\ [](\A n \in Instances : \A f \in fileMetadataMap[n] :
             FileRecords(f) # {})
    /\ [][\A r \in Requests :
             SetsFlag(r) =>
                \A e \in Named(r) :
                   \E row \in file_recipients' :
                      row.file_id = fileID(r) /\ row.recipient_email = e]_vars
    /\ [][/\ file_recipients \subseteq file_recipients'
          /\ \A row \in file_metadata :
                \E kept \in file_metadata' : kept.file_id = row.file_id]_vars

\* A request of file 1 was answered 200 after it stored the FileRecord,
\* provisioned bob and stored the RecipientRecords of alice and of bob.
C31_Witness ==
    \E r \in Requests :
       /\ Done(r) /\ response[r].status = 200 /\ fileID(r) = F1
       /\ FileMetadataRow(r, request[r]) \in file_metadata
       /\ [id |-> UserId(Bob, r), email |-> Bob] \in auth_users
       /\ \A e \in {Alice, Bob} :
             \E row \in RecipientRecords(F1, e) : row.id[1] = r

\* The answers of the error returns of the metadata step.
MetadataErrors ==
    {"Failed to create file metadata", "Failed to check user existence",
     "Failed to create user", "Failed to store recipient info"}

\* The step answers request r with an error of the metadata step.
FailsMetadata(r) ==
    /\ pc[r] # "done" /\ pc'[r] = "done"
    /\ response'[r].error \in MetadataErrors

\* C32: a request whose metadata step fails leaves the flag of its file
\* false; a request that gets the lock while the flag is false runs the
\* metadata step; and whatever failed before, there is never a second
\* FileRecord of a file, a second RecipientRecord of a recipient of a file or
\* a second account of an e-mail, and a request answered 200 has the
\* FileRecord and the RecipientRecord of each recipient it names.
C32_FailedMetadataRetried ==
    /\ [][\A r \in Requests :
             FailsMetadata(r) =>
                /\ fileMetadataMap' = fileMetadataMap
                /\ fileID(r) \notin fileMetadataMap'[instance[r]]]_vars
    /\ [][\A r \in Requests :
             (pc[r] = "lock" /\ pc'[r] # "lock" /\ ~Flag(r))
                => pc'[r] = "metadata"]_vars
    /\ [](\A f \in FileIds : Cardinality(FileRecords(f)) <= 1)
    /\ [](\A f \in FileIds : \A e \in {Alice, Bob} :
             Cardinality(RecipientRecords(f, e)) <= 1)
    /\ [](\A e \in {Alice, Bob} :
             Cardinality(UsersByEmail(auth_users, e)) <= 1)
    /\ [](\A r \in Requests :
             (Done(r) /\ response[r].status = 200)
                => /\ Cardinality(FileRecords(fileID(r))) = 1
                   /\ \A e \in Named(r) :
                         Cardinality(RecipientRecords(fileID(r), e)) = 1)

\* The metadata step of a request of file 1 provisioned bob and then failed
\* at the RecipientRecords; the next request of the file was answered 200,
\* its RecipientRecord of bob names the account the failed request made.
C32_Witness ==
    \E r1, r2 \in Requests :
       /\ Done(r1) /\ response[r1].error = "Failed to store recipient info"
       /\ Done(r2) /\ response[r2].status = 200
       /\ fileID(r1) = F1 /\ fileID(r2) = F1
       /\ UsersByEmail(auth_users, Bob) = {[id |-> UserId(Bob, r1), email |-> Bob]}
       /\ FileRecords(F1) = {FileMetadataRow(r1, request[r1])}
       /\ \E row \in RecipientRecords(F1, Bob) :
             row.id[1] = r2 /\ row.recipient_id = UserId(Bob, r1)

\* C33: a request that has been answered does not hold fileMetadataLock, and
\* the lock is held only by a request inside the metadata step; every
\* request waiting for the lock gets it, and every request received is
\* answered.
C33_LockReleased ==
    /\ [](\A n \in Instances : \A r \in Requests :
             fileMetadataLock[n] = r
                => /\ instance[r] = n
                   /\ pc[r] \in {"metadata", "exists", "get", "create", "keys",
                                 "reset", "recipients"})
    /\ \A r \in Requests : (pc[r] = "lock") ~> (pc[r] # "lock")
    /\ \A r \in Requests : Received(r) ~> Done(r)

\* A request was answered with an error of the metadata step and the request
\* that waited for the lock meanwhile holds it now.
C33_Witness ==
    \E r1, r2 \in Requests :
       /\ Done(r1) /\ response[r1].error \in MetadataErrors
       /\ r2 < r1
       /\ pc[r2] = "metadata" /\ fileMetadataLock["i1"] = r2

\* C34: every ChunkRecord's file_id has a FileRecord.
C34_ChunkHasFile ==
    \A row \in file_chunks : FileRecords(row.file_id) # {}

\* The last chunk of file 1 has its ChunkRecord and file 1 its FileRecord,
\* while the FileRecord insert of a request of file 2 failed: file 2 has no
\* FileRecord and no ChunkRecord.
C34_Witness ==
    /\ ChunkRecords(F1, 2) # {} /\ FileRecords(F1) # {}
    /\ \E r \in Requests :
          /\ Done(r) /\ fileID(r) = F2
          /\ response[r].error = "Failed to create file metadata"
    /\ FileRecords(F2) = {} /\ ChunkRecords(F2, 0) = {}

\* The metadata of file f has been materialized: a request of it was
\* answered 200.
Materialized(f) ==
    \E r \in Requests : Done(r) /\ response[r].status = 200 /\ fileID(r) = f

\* The fields of a FileRecord that are written when it is created.
Created(row) ==
    [file_id |-> row.file_id, sender_id |-> row.sender_id,
     original_filename |-> row.original_filename,
     file_size |-> row.file_size, total_chunks |-> row.total_chunks,
     mime_type |-> row.mime_type]

\* C35: once the metadata of a file has been materialized, no step of a
\* later request changes the created fields of its FileRecord, adds a
\* RecipientRecord of the file or provisions an account (requests are served
\* one after the other, so every handler step after that is a later
\* request's).
C35_MaterializedOnce ==
    [][\A f \in FileIds :
          Materialized(f) =>
             /\ { Created(row) : row \in { x \in file_metadata' : x.file_id = f } }
                   = { Created(row) : row \in FileRecords(f) }
             /\ { row \in file_recipients' : row.file_id = f }
                   = { row \in file_recipients : row.file_id = f }
             /\ \A u \in auth_users' \ auth_users : u.id[2] = -1]_vars

\* C36: completed_at of a FileRecord is set at most once: no step writes the
\* completed_at of a FileRecord that has one.
C36_CompletedOnce ==
    [][\A row \in file_metadata :
          row.completed_at # 0
             => \E kept \in file_metadata' :
                   /\ kept.file_id = row.file_id
                   /\ kept.completed_at = row.completed_at]_vars

\* C37: when the request that carries the chunk with index chunk_count - 1
\* of a file has been answered 200, the FileRecord has its completed_at,
\* whether or not a call failed on the way.
C37_CompleteWhenAnswered ==
    \A r \in Requests :
       (Done(r) /\ response[r].status = 200) =>
          \A row \in FileRecords(fileID(r)) :
             chunkIndex(r) = row.total_chunks - 1 => row.completed_at # 0

\* C38: every RecipientRecord holds a wrapped file key: none has an empty
\* encrypted_file_key.
C38_RecipientHasKey ==
    \A row \in file_recipients : row.encrypted_file_key # <<>>

\* C39: a chunk-upload request with a valid bearer token, which passes
\* AuthMiddleware, is not answered 401 by SendFileChunkHandler.
C39_AuthenticatedReachesIngestion ==
    (/\ httpRequest.route = "/files/send-chunk"
     /\ ValidBearer(httpRequest.authorization)
     /\ httpRequest.stage = "done")
    => httpRequest.response.status # 401


====
